---------------------------- MODULE Spec2Model ----------------------------
(***************************************************************************)
(* Movie-Summarizer: the staged pipeline of main.js                        *)
(*   titleRefinementAgent -> movieDataAndThemeAgent ->                     *)
(*   RunnableBranch(isMovieNotFoundCondition ? handleMovieNotFoundOr-      *)
(*   Uncertain : fileWriterAgent)                                          *)
(* together with the helpers of utils.js.                                  *)
(*                                                                         *)
(* A JavaScript string is a sequence of pieces.  Text that the program     *)
(* inspects character by character (titles, filenames, fences, white       *)
(* space) is written one character per piece; a literal the program only   *)
(* concatenates or compares as a whole (a log message, a JSON document)    *)
(* is one piece.  undefined, null and a number are three reserved          *)
(* one-piece values that no program text equals.                           *)
(***************************************************************************)
EXTENDS Integers, Sequences, FiniteSets, TLC

(***************************************************************************)
(* JavaScript values                                                       *)
(***************************************************************************)
Undefined == <<"<undefined>">>
Null == <<"<null>">>
NumberValue == <<"<number>">>

IsString(v) == v \notin {Undefined, Null, NumberValue}

\* ToBoolean: undefined, null and "" are falsy; a number stands for a non-zero one
Truthy(v) == v \notin {Undefined, Null, <<>>}

\* a || b
Or(a, b) == IF Truthy(a) THEN a ELSE b

\* obj.key, undefined when the key is absent
Get(obj, key) == IF key \in DOMAIN obj THEN obj[key] ELSE Undefined

\* { ...obj, ...more }: the later keys win
Spread(obj, more) == more @@ obj

\* Op(v), with v evaluated once
With(v, Op(_)) == CHOOSE result \in {Op(x) : x \in {v}} : TRUE

(***************************************************************************)
(* String.prototype helpers                                                *)
(***************************************************************************)
IsWs(c) == c \in {" ", "\n", "\t", "\r"}

Min(S) == With(S, LAMBDA T : CHOOSE x \in T : \A y \in T : x <= y)
Max(S) == With(S, LAMBDA T : CHOOSE x \in T : \A y \in T : x >= y)

\* str.trim()
Trim(s) ==
    With({i \in 1..Len(s) : ~IsWs(s[i])},
         LAMBDA solid : IF solid = {} THEN <<>> ELSE SubSeq(s, Min(solid), Max(solid)))

\* str.endsWith(suffix)
EndsWith(s, suffix) ==
    /\ Len(s) >= Len(suffix)
    /\ SubSeq(s, Len(s) - Len(suffix) + 1, Len(s)) = suffix

\* str.startsWith(prefix)
StartsWith(s, prefix) ==
    /\ Len(s) >= Len(prefix)
    /\ SubSeq(s, 1, Len(prefix)) = prefix

\* the positions at which pattern occurs in s
Occurrences(s, pattern) ==
    {i \in 1..(Len(s) - Len(pattern) + 1) : SubSeq(s, i, i + Len(pattern) - 1) = pattern}

\* str.replace(pattern, by) with a string pattern: the first occurrence only
ReplaceFirst(s, pattern, by) ==
    With(Occurrences(s, pattern),
         LAMBDA found :
            IF found = {} THEN s
            ELSE SubSeq(s, 1, Min(found) - 1) \o by
                     \o SubSeq(s, Min(found) + Len(pattern), Len(s)))

\* str.includes(part)
Includes(s, part) == Occurrences(s, part) # {}

UpperToLower ==
    [c \in {"A","B","C","D","E","F","G","H","I","J","K","L","M",
            "N","O","P","Q","R","S","T","U","V","W","X","Y","Z"} |->
        CASE c = "A" -> "a" [] c = "B" -> "b" [] c = "C" -> "c" [] c = "D" -> "d"
          [] c = "E" -> "e" [] c = "F" -> "f" [] c = "G" -> "g" [] c = "H" -> "h"
          [] c = "I" -> "i" [] c = "J" -> "j" [] c = "K" -> "k" [] c = "L" -> "l"
          [] c = "M" -> "m" [] c = "N" -> "n" [] c = "O" -> "o" [] c = "P" -> "p"
          [] c = "Q" -> "q" [] c = "R" -> "r" [] c = "S" -> "s" [] c = "T" -> "t"
          [] c = "U" -> "u" [] c = "V" -> "v" [] c = "W" -> "w" [] c = "X" -> "x"
          [] c = "Y" -> "y" [] c = "Z" -> "z"]

\* str.toLowerCase()
ToLowerCase(s) ==
    [i \in 1..Len(s) |-> IF s[i] \in DOMAIN UpperToLower THEN UpperToLower[s[i]] ELSE s[i]]

(***************************************************************************)
(* utils.js                                                                *)
(***************************************************************************)
FilenameChars ==
    {"a","b","c","d","e","f","g","h","i","j","k","l","m",
     "n","o","p","q","r","s","t","u","v","w","x","y","z",
     "0","1","2","3","4","5","6","7","8","9","_","-","."}

\* .slice(0, 100)
MaxFilenameLength == 100

\* the positions of s that do not continue a run of characters of the class
RunStarts(s, InClass(_)) ==
    SelectSeq([i \in 1..Len(s) |-> i],
              LAMBDA i : ~(InClass(s[i]) /\ i > 1 /\ InClass(s[i - 1])))

\* .replace(/\s+/g, '_'): each run of white space becomes one underscore
ReplaceWsRuns(s) ==
    With(RunStarts(s, IsWs),
         LAMBDA starts : [k \in 1..Len(starts) |->
                             IF IsWs(s[starts[k]]) THEN "_" ELSE s[starts[k]]])

\* a character class that would remove nothing
KeepsEveryChar(c) == TRUE

IsFilenameChar(c) == c \in FilenameChars \/ c \in DOMAIN UpperToLower

\* .replace(/[^a-z0-9_\-\.]/gi, '')
RemoveOtherChars(s) == SelectSeq(s, IsFilenameChar)

IsPeriod(c) == c = "."

\* .replace(/\.+/g, '.'): each run of periods becomes one period
CollapsePeriods(s) ==
    With(RunStarts(s, IsPeriod), LAMBDA starts : [k \in 1..Len(starts) |-> s[starts[k]]])

\* .slice(0, n)
Slice0(s, n) == SubSeq(s, 1, IF Len(s) < n THEN Len(s) ELSE n)

UntitledMovie == <<"u","n","t","i","t","l","e","d","_","m","o","v","i","e">>

sanitizeFilename(name) ==
    IF ~Truthy(name) \/ ~IsString(name) THEN UntitledMovie
    ELSE With(ToLowerCase(name), LAMBDA lower :
         With(ReplaceWsRuns(lower), LAMBDA underscored :
         With(RemoveOtherChars(underscored), LAMBDA kept :
         With(CollapsePeriods(kept), LAMBDA collapsed :
              Slice0(collapsed, MaxFilenameLength)))))

\* the grave accent, U+0060, which a TLA+ string cannot hold
Backtick == "<U+0060>"
Fence == <<Backtick, Backtick, Backtick>>
JsonTag == <<"j","s","o","n">>

IsAt(s, i, part) == i + Len(part) - 1 <= Len(s) /\ SubSeq(s, i, i + Len(part) - 1) = part

\* where \s* ends when it starts at i
SkipWs(s, i) == Min({k \in i..(Len(s) + 1) : k > Len(s) \/ ~IsWs(s[k])})

\* where the capture group starts for a fence opening at i: after the fence, (?:json)? and \s*
CaptureStart(s, i) == SkipWs(s, IF IsAt(s, i + 3, JsonTag) THEN i + 7 ELSE i + 3)

\* the capture group can end before q: \s* and the closing fence match there
ClosesAt(s, q) == IsAt(s, SkipWs(s, q), Fence)

\* the opening fences from which the pattern fence (?:json)? \s* ([\s\S]*?) \s* fence matches
FenceMatches(s) ==
    {i \in 1..Len(s) : IsAt(s, i, Fence)
                       /\ \E q \in CaptureStart(s, i)..(Len(s) + 1) : ClosesAt(s, q)}

\* match[1] of the leftmost match, the lazy group ending as early as it can
FenceCapture(s) ==
    With(CaptureStart(s, Min(FenceMatches(s))),
         LAMBDA p : SubSeq(s, p, Min({k \in p..(Len(s) + 1) : ClosesAt(s, k)}) - 1))

\* match && match[1]
FenceMatch(s) == IF FenceMatches(s) = {} THEN Null ELSE FenceCapture(s)

extractJsonFromString(str) ==
    IF ~IsString(str) THEN str
    ELSE With(FenceMatch(str),
              LAMBDA captured : IF Truthy(captured) THEN Trim(captured) ELSE Trim(str))

(***************************************************************************)
(* JSON.parse on the documents the model providers answer with             *)
(***************************************************************************)
NA == <<"N","/","A">>
TitleUp == <<"U","p">>
PlotUp == <<"An old widower...">>
ThemeUp == <<"Adventure...">>
MovieNotFound == <<"Movie not found!">>
\* six names
ActorsOfUp == <<"a",","," ","b",",","c"," ",",","d",",","e",",","f">>

JsonObject(fields) == [type |-> "object", fields |-> fields]
JsonNull == [type |-> "null"]
JsonNumber == [type |-> "number"]

DocFound ==
    "{\"Title\":\"Up\",\"Year\":\"2009\",\"imdbRating\":\"8.3\",\"Actors\":\"Ed Asner\",\"Genre\":\"Animation\",\"Plot\":\"An old widower...\",\"Response\":\"True\",\"MovieTheme\":\"Adventure...\"}"
DocFoundBare == "{\"Response\":\"True\"}"
DocFoundNullError == "{\"Title\":\"Up\",\"Plot\":\"An old widower...\",\"Response\":\"True\",\"Error\":null}"
DocFoundEmptyFields == "{\"Title\":\"\",\"Year\":\"\",\"Actors\":\"\",\"Plot\":\"\",\"Response\":\"True\"}"
DocNotFound ==
    "{\"Title\":\"Up\",\"Year\":\"N/A\",\"imdbRating\":\"N/A\",\"Actors\":\"N/A\",\"Genre\":\"N/A\",\"Plot\":\"N/A\",\"Response\":\"False\",\"Error\":\"Movie not found!\"}"
DocNotFoundNoError == "{\"Response\":\"False\"}"
DocNotFoundNullError == "{\"Response\":\"False\",\"Error\":null}"
DocNotFoundEmptyError == "{\"Response\":\"False\",\"Error\":\"\"}"
DocNotFoundWithPlot == "{\"Response\":\"False\",\"Error\":\"Movie not found!\",\"Plot\":\"An old widower...\"}"
DocOtherResponse == "{\"Title\":\"Up\",\"Plot\":\"An old widower...\",\"Response\":\"Maybe\"}"
DocFoundNoPlot == "{\"Title\":\"Up\",\"Response\":\"True\",\"MovieTheme\":\"Adventure...\"}"
DocFoundSixActors ==
    "{\"Title\":\"Up\",\"Actors\":\"a, b,c ,d,e,f\",\"Plot\":\"An old widower...\",\"Response\":\"True\"}"
DocFoundNumberTheme ==
    "{\"Title\":\"Up\",\"Plot\":\"An old widower...\",\"Response\":\"True\",\"MovieTheme\":42}"
DocNull == "null"
DocNumber == "42"

DocFile == "{\"filename\":\"up.txt\",\"file_content\":\"Movie Title: Up (2009)...\"}"
DocFileUnsanitized == "{\"filename\":\"../Up 2009!.TXT\",\"file_content\":\"Movie Title: Up (2009)...\"}"
DocFileNoName == "{\"file_content\":\"Movie Title: Up (2009)...\"}"
DocFileNumberName == "{\"filename\":42,\"file_content\":\"Movie Title: Up (2009)...\"}"
DocFileEmptyContent == "{\"filename\":\"up.txt\",\"file_content\":\"\"}"
DocFileSymbolName == "{\"filename\":\"!!!\",\"file_content\":\"Movie Title: Up (2009)...\"}"
DocFileNoExtension == "{\"filename\":\"up\",\"file_content\":\"Movie Title: Up (2009)...\"}"

FileContentUp == <<"Movie Title: Up (2009)...">>

\* what JSON.parse returns for each document
JsonDocuments ==
    (DocFound :> JsonObject(
        [Title |-> TitleUp, Year |-> <<"2","0","0","9">>, imdbRating |-> <<"8",".","3">>,
         Actors |-> <<"Ed Asner">>, Genre |-> <<"Animation">>, Plot |-> PlotUp,
         Response |-> <<"True">>, MovieTheme |-> ThemeUp]))
    @@ (DocFoundBare :> JsonObject([Response |-> <<"True">>]))
    @@ (DocFoundNullError :> JsonObject(
        [Title |-> TitleUp, Plot |-> PlotUp, Response |-> <<"True">>, Error |-> Null]))
    @@ (DocFoundEmptyFields :> JsonObject(
        [Title |-> <<>>, Year |-> <<>>, Actors |-> <<>>, Plot |-> <<>>, Response |-> <<"True">>]))
    @@ (DocNotFound :> JsonObject(
        [Title |-> TitleUp, Year |-> NA, imdbRating |-> NA, Actors |-> NA, Genre |-> NA,
         Plot |-> NA, Response |-> <<"False">>, Error |-> MovieNotFound]))
    @@ (DocNotFoundNoError :> JsonObject([Response |-> <<"False">>]))
    @@ (DocNotFoundNullError :> JsonObject([Response |-> <<"False">>, Error |-> Null]))
    @@ (DocNotFoundEmptyError :> JsonObject([Response |-> <<"False">>, Error |-> <<>>]))
    @@ (DocNotFoundWithPlot :> JsonObject(
        [Response |-> <<"False">>, Error |-> MovieNotFound, Plot |-> PlotUp]))
    @@ (DocOtherResponse :> JsonObject(
        [Title |-> TitleUp, Plot |-> PlotUp, Response |-> <<"Maybe">>]))
    @@ (DocFoundNoPlot :> JsonObject(
        [Title |-> TitleUp, Response |-> <<"True">>, MovieTheme |-> ThemeUp]))
    @@ (DocFoundSixActors :> JsonObject(
        [Title |-> TitleUp, Actors |-> ActorsOfUp, Plot |-> PlotUp, Response |-> <<"True">>]))
    @@ (DocFoundNumberTheme :> JsonObject(
        [Title |-> TitleUp, Plot |-> PlotUp, Response |-> <<"True">>, MovieTheme |-> NumberValue]))
    @@ (DocNull :> JsonNull)
    @@ (DocNumber :> JsonNumber)
    @@ (DocFile :> JsonObject(
        [filename |-> <<"u","p",".","t","x","t">>, file_content |-> FileContentUp]))
    @@ (DocFileUnsanitized :> JsonObject(
        [filename |-> <<".",".","/","U","p"," ","2","0","0","9","!",".","T","X","T">>,
         file_content |-> FileContentUp]))
    @@ (DocFileNoName :> JsonObject([file_content |-> FileContentUp]))
    @@ (DocFileNumberName :> JsonObject(
        [filename |-> NumberValue, file_content |-> FileContentUp]))
    @@ (DocFileEmptyContent :> JsonObject(
        [filename |-> <<"u","p",".","t","x","t">>, file_content |-> <<>>]))
    @@ (DocFileSymbolName :> JsonObject(
        [filename |-> <<"!","!","!">>, file_content |-> FileContentUp]))
    @@ (DocFileNoExtension :> JsonObject(
        [filename |-> <<"u","p">>, file_content |-> FileContentUp]))

\* a call that returned a value, and one that threw an Error with this message
Returned(value) == [threw |-> FALSE, value |-> value]
Threw(message) == [threw |-> TRUE, message |-> message]

\* JSON.parse(text): white space around the document is allowed, anything else is a SyntaxError
JsonParse(text) ==
    With(Trim(text),
         LAMBDA document :
            IF Len(document) = 1 /\ document[1] \in DOMAIN JsonDocuments
            THEN Returned(JsonDocuments[document[1]])
            ELSE Threw(<<"Unexpected token in JSON">>))

\* value.key on a parsed value: a TypeError on null, undefined on a number
JsonProperty(value, key) ==
    CASE value.type = "object" -> Returned(Get(value.fields, key))
      [] value.type = "null" -> Threw(<<"Cannot read properties of null (reading '", key, "')">>)
      [] OTHER -> Returned(Undefined)

\* the own enumerable properties that { ...value } copies
JsonSpread(value) == IF value.type = "object" THEN value.fields ELSE <<>>

(***************************************************************************)
(* movieAgent.js: createTitleRefinementAgent                               *)
(***************************************************************************)
UncertainMarker == <<" ","(","U","N","C","E","R","T","A","I","N",")">>

\* the stage after the provider answered with refined_title_text
RefineTitle(inputObject, refined_title_text) ==
    With(IF Truthy(refined_title_text) THEN Trim(refined_title_text) ELSE inputObject.raw_title,
         LAMBDA text :
            IF EndsWith(text, UncertainMarker)
            THEN Returned(Spread(inputObject,
                     [refinedTitle |-> Trim(ReplaceFirst(text, UncertainMarker, <<>>)),
                      titleIsUncertain |-> TRUE]))
            ELSE Returned(Spread(inputObject,
                     [refinedTitle |-> text, titleIsUncertain |-> FALSE])))

\* a stage that would catch the provider's error and fall back to the raw title
titleRefinementCatching(inputObject, llm) ==
    RefineTitle(inputObject, IF llm.threw THEN Undefined ELSE llm.value)

\* the stage: llm is the outcome of titleRefinementLlmTool.invoke, whose value is
\* result.refined_title_text; the stage has no try/catch
titleRefinementAgentRunnable(inputObject, llm) ==
    IF llm.threw THEN llm ELSE RefineTitle(inputObject, llm.value)

(***************************************************************************)
(* agents/movieDataAndThemeAgent.js                                        *)
(***************************************************************************)
ResponseTrue == <<"True">>
ResponseFalse == <<"False">>
CouldNotBeDetermined == "could not be determined"
ThemeProcessingError == <<"Theme ", CouldNotBeDetermined, " due to processing error.">>
ThemeMissing == <<"Theme ", CouldNotBeDetermined, " (LLM response missing theme).">>
InitialError == <<"Initial error before LLM call or due to uncertain title.">>
LlmIndicatedNotFound == <<"LLM indicated movie not found or error simulating data.">>

\* let movieDataWithTheme = { ... }
movieDataWithThemeInitial(inputObject) ==
    [Title |-> Or(inputObject.refinedTitle, Or(inputObject.raw_title, NA)),
     Year |-> NA, imdbRating |-> NA, Actors |-> NA, Genre |-> NA, Plot |-> NA,
     Response |-> ResponseFalse, MovieTheme |-> ThemeProcessingError, Error |-> InitialError]

\* a stage that would call the provider whatever the title
NeverSkipsProvider(inputObject) == FALSE

\* if (titleIsUncertain): the provider is not called
SkipsProvider(inputObject) == inputObject.titleIsUncertain

UncertainTitleMessage(inputObject) ==
    <<"Cannot reliably fetch data or generate theme for uncertain title: \"">>
        \o Or(inputObject.refinedTitle, inputObject.raw_title) \o <<"\"">>

\* a stage without the if that fills a missing Error
KeepError(movieDataWithTheme) == movieDataWithTheme

\* if (movieDataWithTheme.Response === "False" && !movieDataWithTheme.Error)
FillMissingError(movieDataWithTheme) ==
    With(movieDataWithTheme,
         LAMBDA data : IF data.Response = ResponseFalse /\ ~Truthy(data.Error)
                       THEN [data EXCEPT !.Error = LlmIndicatedNotFound]
                       ELSE data)

\* movieDataWithTheme = { ...movieDataWithTheme, ...parsedLlmOutput, Title, Response, MovieTheme }
MergeLlmOutput(movieDataWithTheme, parsedLlmOutput, refinedTitle) ==
    Spread(Spread(movieDataWithTheme, JsonSpread(parsedLlmOutput)),
           [Title |-> Or(JsonProperty(parsedLlmOutput, "Title").value, refinedTitle),
            Response |-> IF JsonProperty(parsedLlmOutput, "Response").value = ResponseTrue
                         THEN ResponseTrue ELSE ResponseFalse,
            MovieTheme |-> Or(JsonProperty(parsedLlmOutput, "MovieTheme").value, ThemeMissing)])

\* the try block: invoke, extractJsonFromString, JSON.parse, merge
TryLlmOutput(movieDataWithTheme, refinedTitle, llm) ==
    IF llm.threw THEN llm
    ELSE With(JsonParse(extractJsonFromString(llm.value)),
              LAMBDA parsed :
                 IF parsed.threw THEN parsed
                 ELSE IF JsonProperty(parsed.value, "Title").threw
                 THEN JsonProperty(parsed.value, "Title")
                 ELSE Returned(FillMissingError(
                          MergeLlmOutput(movieDataWithTheme, parsed.value, refinedTitle))))

\* a catch block that would throw the error on
RethrowLlmError(movieDataWithTheme, attempt) == attempt

\* the catch block
CatchLlmError(movieDataWithTheme, attempt) ==
    Returned([movieDataWithTheme EXCEPT
                 !.Error = <<"LLM processing error: ">> \o attempt.message,
                 !.Response = ResponseFalse,
                 !.Plot = NA,
                 !.MovieTheme = ThemeProcessingError])

\* const movieDataForNextStep = { ... }
movieDataForNextStep(movieDataWithTheme) ==
    [title |-> movieDataWithTheme.Title,
     year |-> Or(movieDataWithTheme.Year, NA),
     imdbRating |-> Or(movieDataWithTheme.imdbRating, NA),
     mainCast |-> Or(movieDataWithTheme.Actors, NA),
     genre |-> Or(movieDataWithTheme.Genre, NA),
     plotSummary |-> Or(movieDataWithTheme.Plot, NA),
     Response |-> movieDataWithTheme.Response,
     error |-> movieDataWithTheme.Error]

\* movieDataWithTheme when the stage reaches line 114, or the error that escaped
MovieDataWithTheme(inputObject, llm) ==
    With(movieDataWithThemeInitial(inputObject),
         LAMBDA initial :
            IF SkipsProvider(inputObject)
            THEN Returned([initial EXCEPT !.Error = UncertainTitleMessage(inputObject)])
            ELSE With(TryLlmOutput(initial, inputObject.refinedTitle, llm),
                      LAMBDA attempt : IF attempt.threw THEN CatchLlmError(initial, attempt)
                                       ELSE attempt))

\* the stage: llm is the outcome of movieDataAndThemeLlmTool.invoke
movieDataAndThemeAgentRunnable(inputObject, llm) ==
    With(MovieDataWithTheme(inputObject, llm),
         LAMBDA data :
            IF data.threw THEN data
            ELSE Returned(Spread(inputObject,
                                 [movieDataFromOMDB |-> movieDataForNextStep(data.value),
                                  generatedTheme |-> data.value.MovieTheme])))

(***************************************************************************)
(* main.js: the branch and the not-found handler                           *)
(***************************************************************************)
OUTPUT_DIR == <<"movie_details">>

\* a condition that would read a key the metadata does not carry
isMovieNotFoundConditionOnFound(input) ==
    /\ "movieDataFromOMDB" \in DOMAIN input
    /\ Get(input.movieDataFromOMDB, "found") = ResponseFalse

\* (input) => input.movieDataFromOMDB?.Response === "False"
isMovieNotFoundCondition(input) ==
    /\ "movieDataFromOMDB" \in DOMAIN input
    /\ Get(input.movieDataFromOMDB, "Response") = ResponseFalse

\* input.movieDataFromOMDB?.title || input.refinedTitle || input.raw_title || "the provided movie"
titleForMessage(input) ==
    Or(IF "movieDataFromOMDB" \in DOMAIN input THEN Get(input.movieDataFromOMDB, "title")
       ELSE Undefined,
       Or(Get(input, "refinedTitle"), Or(Get(input, "raw_title"), <<"the provided movie">>)))

ReasonUncertain(input) ==
    <<"The initial movie title (\"">> \o input.raw_title
        \o <<"\") was too uncertain for reliable processing. Refined attempt: \"">>
        \o input.refinedTitle \o <<"\".">>

ReasonAgentError(input) ==
    <<"Reason from data/theme agent for \"">> \o titleForMessage(input) \o <<"\": ">>
        \o Get(input.movieDataFromOMDB, "Error")

ReasonResponseFalse(input) ==
    <<"The data/theme agent could not find details for \"">> \o titleForMessage(input)
        \o <<"\" (Response: False).">>

ReasonDefault ==
    <<"The movie data/theme agent indicated the movie was not found or an error occurred.">>

\* the if / else if chain that picks the reason
NotFoundReason(input) ==
    IF input.titleIsUncertain THEN ReasonUncertain(input)
    ELSE IF "movieDataFromOMDB" \in DOMAIN input /\ Truthy(Get(input.movieDataFromOMDB, "Error"))
    THEN ReasonAgentError(input)
    ELSE IF isMovieNotFoundCondition(input) THEN ReasonResponseFalse(input)
    ELSE ReasonDefault

\* a handler that would return its own fields without the record it was given
handleDroppingInput(input) ==
    Returned([finalMessage |-> <<"Processing halted for \"">> \o titleForMessage(input) \o <<"\": ">>
                                   \o NotFoundReason(input),
              writtenFilePath |-> Null])

handleMovieNotFoundOrUncertain(input) ==
    Returned(Spread(input,
        [finalMessage |-> <<"Processing halted for \"">> \o titleForMessage(input) \o <<"\": ">>
                              \o NotFoundReason(input),
         writtenFilePath |-> Null]))

(***************************************************************************)
(* movieAgent.js: createFileWriterAgent                                    *)
(***************************************************************************)
DotTxt == <<".","t","x","t">>

\* path.join(outputDir, name): an empty or "." segment leaves the directory itself
PathJoin(outputDir, name) ==
    IF name \in {<<>>, <<".">>} THEN outputDir ELSE outputDir \o <<"/">> \o name

\* the filesystem: the directories that exist and each file's content
EmptyFiles == [path \in {} |-> <<>>]

\* fs.mkdir(outputDir, { recursive: true }) then fs.writeFile(filePath, content);
\* fault names the call that the operating system refuses, if any
nativeFileSystemWriteTool(filePath, content, outputDir, fs, fault) ==
    IF fault = "mkdir"
    THEN [threw |-> TRUE, message |-> <<"EACCES: permission denied, mkdir">>,
          fs |-> fs, calls |-> <<"fs.mkdir", "threw">>]
    ELSE IF fault = "writeFile"
    THEN [threw |-> TRUE, message |-> <<"ENOSPC: no space left on device, write">>,
          fs |-> [fs EXCEPT !.dirs = @ \cup {outputDir}],
          calls |-> <<"fs.mkdir", "fs.writeFile", "threw">>]
    ELSE IF filePath = outputDir
    THEN [threw |-> TRUE, message |-> <<"EISDIR: illegal operation on a directory, open">>,
          fs |-> [fs EXCEPT !.dirs = @ \cup {outputDir}],
          calls |-> <<"fs.mkdir", "fs.writeFile", "threw">>]
    ELSE [threw |-> FALSE,
          fs |-> [dirs |-> fs.dirs \cup {outputDir}, files |-> (filePath :> content) @@ fs.files],
          calls |-> <<"fs.mkdir", "fs.writeFile">>]

\* const detailsForFileLlm = { ... }
detailsForFileLlm(inputObject) ==
    [title |-> Or(Get(inputObject.movieDataFromOMDB, "title"),
                  Or(Get(inputObject, "refinedTitle"), <<"Unknown Movie">>)),
     year |-> Or(Get(inputObject.movieDataFromOMDB, "year"), NA),
     imdbRating |-> Or(Get(inputObject.movieDataFromOMDB, "imdbRating"), NA),
     mainCast |-> Or(Get(inputObject.movieDataFromOMDB, "mainCast"), NA),
     genre |-> Or(Get(inputObject.movieDataFromOMDB, "genre"), NA),
     plotSummary |-> Or(Get(inputObject.movieDataFromOMDB, "plotSummary"), NA),
     movieTheme |-> Or(Get(inputObject, "generatedTheme"), <<"Theme ", CouldNotBeDetermined, ".">>),
     omdbError |-> Or(Get(inputObject.movieDataFromOMDB, "error"), NA)]

\* the outer try block: the model's filename and content, when it supplied both as strings
LlmFileDetails(llm) ==
    IF llm.threw THEN [wasLlmSuccessful |-> FALSE]
    ELSE With(JsonParse(extractJsonFromString(llm.value)),
              LAMBDA parsed :
                 IF parsed.threw \/ JsonProperty(parsed.value, "filename").threw
                 THEN [wasLlmSuccessful |-> FALSE]
                 ELSE With(<<JsonProperty(parsed.value, "filename").value,
                             JsonProperty(parsed.value, "file_content").value>>,
                           LAMBDA fileDetails :
                              IF \/ ~Truthy(fileDetails[1]) \/ ~IsString(fileDetails[1])
                                 \/ ~Truthy(fileDetails[2]) \/ ~IsString(fileDetails[2])
                              THEN [wasLlmSuccessful |-> FALSE]
                              ELSE [wasLlmSuccessful |-> TRUE,
                                    finalFilename |-> sanitizeFilename(fileDetails[1]),
                                    finalFileContent |-> fileDetails[2]]))

\* if (!wasLlmSuccessful) { ... }
FallbackFileDetails(details) ==
    [wasLlmSuccessful |-> FALSE,
     finalFilename |-> sanitizeFilename(details.title) \o DotTxt,
     finalFileContent |->
        <<"Movie Title: ">> \o details.title \o <<" (">> \o details.year \o <<")\n">>
        \o <<"--------------------------------------\n">>
        \o <<"IMDb Rating:\n  ">> \o details.imdbRating \o <<"\n\n">>
        \o <<"Main Cast:\n  ">> \o details.mainCast \o <<"\n\n">>
        \o <<"Genre(s):\n  ">> \o details.genre \o <<"\n\n">>
        \o <<"Movie Theme:\n  ">>
        \o (IF Truthy(details.movieTheme)
               /\ ~Includes(ToLowerCase(details.movieTheme), <<CouldNotBeDetermined>>)
            THEN details.movieTheme ELSE <<"Theme could not be determined.">>)
        \o <<"\n\n">>
        \o <<"Plot Summary:\n  ">> \o details.plotSummary \o <<"\n\n">>
        \o <<"--- Fallback Content Note ---\n">>
        \o <<"This content was generated due to an issue with the LLM producing the structured file details.\n">>
        \o <<"OMDB/Theme Agent Error (if any): ">> \o details.omdbError \o <<"\n">>]

\* detailsForFileLlm.movieTheme.toLowerCase() of the fallback content, outside every try:
\* a TypeError when the theme is a truthy value that is not a string
FallbackThrows(details) == Truthy(details.movieTheme) /\ ~IsString(details.movieTheme)

ToLowerCaseIsNotAFunction == <<"detailsForFileLlm.movieTheme.toLowerCase is not a function">>

FileDetails(inputObject, llm) ==
    With(LlmFileDetails(llm),
         LAMBDA fromLlm :
            IF fromLlm.wasLlmSuccessful THEN fromLlm
            ELSE With(detailsForFileLlm(inputObject), FallbackFileDetails))

WriteSuccessMessage(details, filePath, wasLlmSuccessful) ==
    <<"Successfully wrote movie details for \"">> \o details.title \o <<"\" to: ">> \o filePath
        \o <<" (LLM generated content/name: ", IF wasLlmSuccessful THEN "true" ELSE "false", ")">>

WriteErrorMessage(details, filePath, written) ==
    <<"Error writing file \"">> \o filePath \o <<"\" for \"">> \o details.title \o <<"\": ">>
        \o written.message

\* a catch (writeError) block that would throw the error on
RethrowWriteError(inputObject, filePath, written) == Threw(written.message)

\* the record returned from the catch (writeError) block
CatchWriteError(inputObject, filePath, written) ==
    Returned(Spread(inputObject,
        [finalMessage |-> WriteErrorMessage(detailsForFileLlm(inputObject), filePath, written),
         writtenFilePath |-> filePath]))

\* the stage: llm is the outcome of llmJsonGenerationTool.invoke; the result carries the
\* record (or the error that escaped), the filesystem afterwards and the calls made
fileWriterAgentRunnable(inputObject, llm, outputDir, fs, fault) ==
    IF ~LlmFileDetails(llm).wasLlmSuccessful /\ FallbackThrows(detailsForFileLlm(inputObject))
    THEN [result |-> Threw(ToLowerCaseIsNotAFunction), fs |-> fs,
          calls |-> <<"llm:fileContent">> \o (IF llm.threw THEN <<"threw">> ELSE <<>>)]
    ELSE
    With(FileDetails(inputObject, llm), LAMBDA file :
    With(PathJoin(outputDir, file.finalFilename), LAMBDA filePath :
    With(nativeFileSystemWriteTool(filePath, file.finalFileContent, outputDir, fs, fault),
         LAMBDA written :
            [result |-> IF written.threw THEN CatchWriteError(inputObject, filePath, written)
                        ELSE Returned(Spread(inputObject,
                                 [finalMessage |->
                                      WriteSuccessMessage(detailsForFileLlm(inputObject),
                                                          filePath, file.wasLlmSuccessful),
                                  writtenFilePath |-> filePath])),
             fs |-> written.fs,
             calls |-> <<"llm:fileContent">> \o (IF llm.threw THEN <<"threw">> ELSE <<>>)
                           \o written.calls])))

(***************************************************************************)
(* The inputs: the command line, the providers' answers, the disk's faults *)
(***************************************************************************)
RECURSIVE Join(_)
\* process.argv.slice(2).join(" ")
Join(args) ==
    IF args = <<>> THEN <<>>
    ELSE IF Len(args) = 1 THEN args[1]
    ELSE args[1] \o <<" ">> \o Join(Tail(args))

DefaultTitle == <<"I","n","c","e","p","t","i","o","n"," ","2","0","1","0">>

Argvs ==
    { <<>>,
      << <<"u","p">> >>,
      << <<"U","P","!">>, <<"2","0","0","9">> >>,
      << <<"u","p">>, <<"(","U","N","C","E","R","T","A","I","N",")">> >> }

ProviderError == <<"fetch failed">>

TitleTexts ==
    { Undefined,
      <<>>,
      <<" ">>,
      TitleUp,
      <<" ">> \o TitleUp \o <<"\n">>,
      TitleUp \o UncertainMarker,
      UncertainMarker,
      TitleUp \o UncertainMarker \o UncertainMarker }

TitleLlmResults == {Threw(ProviderError)} \cup {Returned(text) : text \in TitleTexts}

\* a document as the model may wrap it
Plain(doc) == <<doc>>
Fenced(doc) == Fence \o JsonTag \o <<"\n", doc, "\n">> \o Fence
InProse(doc) == <<"Here is the JSON you asked for:", " ", doc>>

DataDocs ==
    {DocFound, DocFoundBare, DocFoundNullError, DocFoundEmptyFields, DocNotFound,
     DocNotFoundNoError, DocNotFoundNullError, DocNotFoundEmptyError, DocNotFoundWithPlot,
     DocOtherResponse, DocFoundNoPlot, DocFoundSixActors, DocFoundNumberTheme, DocNull,
     DocNumber}

DataTexts ==
    {Plain(doc) : doc \in DataDocs} \cup {Fenced(doc) : doc \in DataDocs}
        \cup {InProse(DocFound), <<"I do not know that movie.">>, Fence \o Fence, <<>>}

DataLlmResults == {Threw(ProviderError)} \cup {Returned(text) : text \in DataTexts}

FileDocs ==
    {DocFile, DocFileUnsanitized, DocFileNoName, DocFileNumberName, DocFileEmptyContent,
     DocFileSymbolName, DocFileNoExtension, DocNull}

FileTexts == {Plain(doc) : doc \in FileDocs} \cup {Fenced(DocFile), InProse(DocFile)}

FileLlmResults == {Threw(ProviderError)} \cup {Returned(text) : text \in FileTexts}

FsFaults == {"none", "mkdir", "writeFile"}

\* process.env.GOOGLE_API_KEY and process.env.OMDB_API_KEY: a key or undefined
KeyValues == {Undefined, <<"key">>}
Envs == [GOOGLE_API_KEY : KeyValues, OMDB_API_KEY : KeyValues]
AllKeys == [GOOGLE_API_KEY |-> <<"key">>, OMDB_API_KEY |-> <<"key">>]

(***************************************************************************)
(* The run of main.js                                                      *)
(***************************************************************************)
VARIABLES
    pc,         \* where the run is: the step of the sequence to run next
    argv,       \* process.argv.slice(2)
    record,     \* the object handed from step to step
    thrown,     \* the message of the error that escaped the sequence, if any
    fs,         \* the disk: the directories and the files' contents
    trace,      \* the steps run, the calls to providers and disk, the console lines
    llmResults, \* what each provider call answered
    env         \* process.env: the credentials that are set

vars == <<pc, argv, record, thrown, fs, trace, llmResults, env>>

NoResults == [call \in {} |-> <<>>]

Init ==
    /\ pc = "startup"
    /\ argv \in Argvs
    /\ env \in Envs
    /\ record = [key \in {} |-> <<>>]
    /\ thrown = Undefined
    /\ fs \in {[dirs |-> dirs, files |-> EmptyFiles] : dirs \in {{}, {OUTPUT_DIR}}}
    /\ trace = <<>>
    /\ llmResults = NoResults

\* RunnableSequence: a step's value goes to the next step, a step's error ends the sequence
StepResult(outcome, next) ==
    IF outcome.threw
    THEN pc' = "catch" /\ thrown' = outcome.message /\ UNCHANGED record
    ELSE pc' = next /\ record' = outcome.value /\ UNCHANGED thrown

\* the module bodies evaluated before the entry point: llm_config.js (imported first)
\* exits without GOOGLE_API_KEY; main.js only warns without OMDB_API_KEY
Startup ==
    /\ pc = "startup"
    /\ IF ~Truthy(env.GOOGLE_API_KEY)
       THEN /\ pc' = "exited"
            /\ trace' = trace \o <<"console.error: GOOGLE_API_KEY is not set", "process.exit(1)">>
       ELSE /\ pc' = "main"
            /\ trace' = IF ~Truthy(env.OMDB_API_KEY)
                        THEN Append(trace, "console.warn: OMDB_API_KEY is not set")
                        ELSE trace
    /\ UNCHANGED <<argv, env, record, thrown, fs, llmResults>>

\* the entry point and processMoviePipeline up to fullMovieProcessingSequence.invoke
Main ==
    /\ pc = "main"
    /\ LET movieNameInput == Or(Trim(Join(argv)), DefaultTitle)
       IN  IF ~Truthy(movieNameInput) \/ Trim(movieNameInput) = <<>>
           THEN /\ pc' = "done"
                /\ trace' = Append(trace, "console.error: Please provide a movie name.")
                /\ UNCHANGED record
           ELSE /\ pc' = "TitleRefinementAgentStep"
                /\ trace' = Append(trace, "console.log: Starting Movie Processing Pipeline")
                /\ record' = [raw_title |-> movieNameInput]
    /\ UNCHANGED <<argv, env, thrown, fs, llmResults>>

TitleRefinementAgentStep ==
    /\ pc = "TitleRefinementAgentStep"
    /\ \E llm \in TitleLlmResults :
          /\ \E outcome \in {titleRefinementAgentRunnable(record, llm)} :
                StepResult(outcome, "MovieDataAndThemeAgentStep")
          /\ trace' = trace \o <<"TitleRefinementAgentStep", "llm:titleRefinement">>
                          \o (IF llm.threw THEN <<"threw">> ELSE <<>>)
          /\ llmResults' = ("titleRefinement" :> llm) @@ llmResults
    /\ UNCHANGED <<argv, env, fs>>

MovieDataAndThemeAgentStep ==
    /\ pc = "MovieDataAndThemeAgentStep"
    /\ IF SkipsProvider(record)
       THEN /\ \E outcome \in {movieDataAndThemeAgentRunnable(record, Undefined)} :
                  StepResult(outcome, "RunnableBranch")
            /\ trace' = Append(trace, "MovieDataAndThemeAgentStep")
            /\ UNCHANGED llmResults
       ELSE \E llm \in DataLlmResults :
               /\ \E outcome \in {movieDataAndThemeAgentRunnable(record, llm)} :
                     StepResult(outcome, "RunnableBranch")
               /\ trace' = trace \o <<"MovieDataAndThemeAgentStep", "llm:movieDataAndTheme">>
                               \o (IF llm.threw THEN <<"threw">> ELSE <<>>)
               /\ llmResults' = ("movieDataAndTheme" :> llm) @@ llmResults
    /\ UNCHANGED <<argv, env, fs>>

\* a branch with its two targets exchanged
RunnableBranchTargetExchanged(input) ==
    IF isMovieNotFoundCondition(input) THEN "FileWriterAgentStep"
    ELSE "HandleMovieNotFoundOrUncertainStep"

\* new RunnableBranch({ branches: [[isMovieNotFoundCondition, handle...]], default: fileWriterAgent })
RunnableBranchTarget(input) ==
    IF isMovieNotFoundCondition(input) THEN "HandleMovieNotFoundOrUncertainStep"
    ELSE "FileWriterAgentStep"

RunnableBranch ==
    /\ pc = "RunnableBranch"
    /\ pc' = RunnableBranchTarget(record)
    /\ trace' = Append(trace, "IsMovieNotFoundCondition")
    /\ UNCHANGED <<argv, env, record, thrown, fs, llmResults>>

HandleMovieNotFoundOrUncertainStep ==
    /\ pc = "HandleMovieNotFoundOrUncertainStep"
    /\ \E outcome \in {handleMovieNotFoundOrUncertain(record)} : StepResult(outcome, "returned")
    /\ trace' = trace \o <<"HandleMovieNotFoundOrUncertainStep",
                           "console.log: No output file will be created for this movie.">>
    /\ UNCHANGED <<argv, env, fs, llmResults>>

FileWriterAgentStep ==
    /\ pc = "FileWriterAgentStep"
    /\ \E llm \in FileLlmResults, fault \in FsFaults :
          \E out \in {fileWriterAgentRunnable(record, llm, OUTPUT_DIR, fs, fault)} :
             /\ StepResult(out.result, "returned")
             /\ fs' = out.fs
             /\ trace' = trace \o <<"FileWriterAgentStep">> \o out.calls
             /\ llmResults' = ("fileContent" :> llm) @@ llmResults
    /\ UNCHANGED <<argv, env>>

\* processMoviePipeline after the sequence returned
ReportResult ==
    /\ pc = "returned"
    /\ pc' = "done"
    /\ trace' = trace \o <<"console.log: Movie Processing Pipeline finished.">>
                    \o (IF Truthy(Get(record, "finalMessage"))
                        THEN <<"console.log: Final Status">>
                                 \o (IF Truthy(Get(record, "writtenFilePath"))
                                     THEN <<"console.log: Output File">> ELSE <<>>)
                        ELSE <<"console.log: Sequence finished. Check logs for specific outcomes.">>)
    /\ UNCHANGED <<argv, env, record, thrown, fs, llmResults>>

\* processMoviePipeline's catch (error)
ReportCriticalError ==
    /\ pc = "catch"
    /\ pc' = "done"
    /\ trace' = Append(trace, "console.error: Critical error during pipeline execution")
    /\ UNCHANGED <<argv, env, record, thrown, fs, llmResults>>

Next ==
    \/ Startup
    \/ Main
    \/ TitleRefinementAgentStep
    \/ MovieDataAndThemeAgentStep
    \/ RunnableBranch
    \/ HandleMovieNotFoundOrUncertainStep
    \/ FileWriterAgentStep
    \/ ReportResult
    \/ ReportCriticalError

Spec == Init /\ [][Next]_vars
(***************************************************************************)
(* Reading a run: what ran, what the providers answered, what came out     *)
(***************************************************************************)
Ran(event) == \E i \in DOMAIN trace : trace[i] = event
Times(event) == Cardinality({i \in DOMAIN trace : trace[i] = event})
Before(first, second) ==
    \A i, j \in DOMAIN trace : (trace[i] = first /\ trace[j] = second) => i < j

\* the record carries the metadata of Stage 2
HasMetadata == "movieDataFromOMDB" \in DOMAIN record
Metadata == record.movieDataFromOMDB

\* the pipeline has returned its terminal record
Returns == pc \in {"returned", "done"} /\ thrown = Undefined /\ Ran("TitleRefinementAgentStep")

NoFilesystemCall == ~Ran("fs.mkdir") /\ ~Ran("fs.writeFile")

Asked(call) == call \in DOMAIN llmResults

\* a filesystem call of the write capability threw
WriteFailed ==
    \E i \in DOMAIN trace :
        trace[i] \in {"fs.mkdir", "fs.writeFile"} /\ i < Len(trace) /\ trace[i + 1] = "threw"

\* the message of the error raised inside the try block of Stage 2 by this provider
\* outcome: the transport error, the SyntaxError of JSON.parse, the TypeError of reading
\* a property of null; null when nothing is raised
FailureInTry(llm) ==
    IF llm.threw THEN llm.message
    ELSE With(JsonParse(extractJsonFromString(llm.value)),
              LAMBDA parsed :
                 IF parsed.threw THEN parsed.message
                 ELSE IF parsed.value.type = "null"
                 THEN JsonProperty(parsed.value, "Title").message
                 ELSE Null)

(***************************************************************************)
(* C1: whenever Stage 2 yields metadata with Response "False", the run     *)
(* goes to the not-found handler and ends there: the file writer never     *)
(* runs, neither fs.mkdir nor fs.writeFile is called, no file exists, and  *)
(* the record returned has writtenFilePath = null and a finalMessage.      *)
(***************************************************************************)
C1_NotFoundEndsInHandler ==
    (HasMetadata /\ Metadata.Response = ResponseFalse) =>
        /\ pc \in {"RunnableBranch", "HandleMovieNotFoundOrUncertainStep", "returned", "done"}
        /\ thrown = Undefined
        /\ ~Ran("FileWriterAgentStep")
        /\ NoFilesystemCall
        /\ fs.files = EmptyFiles
        /\ pc \in {"returned", "done"} =>
              /\ Ran("HandleMovieNotFoundOrUncertainStep")
              /\ record.writtenFilePath = Null
              /\ Truthy(Get(record, "finalMessage"))
              /\ IsString(Get(record, "finalMessage"))

C1_Witness ==
    /\ pc = "done"
    /\ HasMetadata /\ Metadata.Response = ResponseFalse
    /\ Asked("movieDataAndTheme")
    /\ Ran("HandleMovieNotFoundOrUncertainStep")

(***************************************************************************)
(* C2: when the record entering Stage 2 has titleIsUncertain = true, the   *)
(* stage does not invoke the provider and returns metadata with Response   *)
(* "False" and a non-empty error string.                                   *)
(***************************************************************************)
C2_UncertainTitleSkipsProvider ==
    (Ran("MovieDataAndThemeAgentStep") /\ record.titleIsUncertain) =>
        /\ ~Ran("llm:movieDataAndTheme")
        /\ ~Asked("movieDataAndTheme")
        /\ thrown = Undefined
        /\ HasMetadata
        /\ Metadata.Response = ResponseFalse
        /\ IsString(Metadata.error) /\ Truthy(Metadata.error)

C2_Witness ==
    /\ pc = "RunnableBranch"
    /\ Ran("MovieDataAndThemeAgentStep")
    /\ record.titleIsUncertain
    /\ HasMetadata

(***************************************************************************)
(* C3: the branch condition is evaluated at most once, and exactly once in *)
(* a run that got past Stage 2 and went on; it comes after Stage 2 and     *)
(* before any terminal stage; the handler is the terminal stage exactly    *)
(* when the metadata's Response is "False", the file writer otherwise;     *)
(* each runs at most once and never both.                                  *)
(***************************************************************************)
C3_BranchEvaluatedOnce ==
    /\ Times("IsMovieNotFoundCondition") <= 1
    /\ Times("HandleMovieNotFoundOrUncertainStep") <= 1
    /\ Times("FileWriterAgentStep") <= 1
    /\ ~(Ran("HandleMovieNotFoundOrUncertainStep") /\ Ran("FileWriterAgentStep"))
    /\ Ran("IsMovieNotFoundCondition") => Ran("MovieDataAndThemeAgentStep") /\ HasMetadata
    /\ Before("MovieDataAndThemeAgentStep", "IsMovieNotFoundCondition")
    /\ Before("IsMovieNotFoundCondition", "HandleMovieNotFoundOrUncertainStep")
    /\ Before("IsMovieNotFoundCondition", "FileWriterAgentStep")
    /\ (Ran("HandleMovieNotFoundOrUncertainStep") \/ Ran("FileWriterAgentStep")) =>
          Times("IsMovieNotFoundCondition") = 1
    /\ pc = "HandleMovieNotFoundOrUncertainStep" => Metadata.Response = ResponseFalse
    /\ pc = "FileWriterAgentStep" => Metadata.Response # ResponseFalse
    /\ Ran("HandleMovieNotFoundOrUncertainStep") => Metadata.Response = ResponseFalse
    /\ Ran("FileWriterAgentStep") => Metadata.Response # ResponseFalse
    /\ (pc = "done" /\ Ran("MovieDataAndThemeAgentStep")) =>
          /\ Times("IsMovieNotFoundCondition") = 1
          /\ Ran("HandleMovieNotFoundOrUncertainStep") <=> Metadata.Response = ResponseFalse
          /\ Ran("FileWriterAgentStep") <=> Metadata.Response # ResponseFalse

C3_Witness ==
    /\ pc = "done"
    /\ Times("IsMovieNotFoundCondition") = 1
    /\ Ran("FileWriterAgentStep")
    /\ Metadata.Response = ResponseTrue

C5_TitleRefinementFailurePropagates ==
    (Asked("titleRefinement") /\ llmResults.titleRefinement.threw) =>
        /\ pc \in {"catch", "done"}
        /\ thrown = llmResults.titleRefinement.message
        /\ ~Ran("MovieDataAndThemeAgentStep")
        /\ ~Ran("llm:movieDataAndTheme")
        /\ ~Ran("IsMovieNotFoundCondition")
        /\ ~Ran("HandleMovieNotFoundOrUncertainStep")
        /\ ~Ran("FileWriterAgentStep")
        /\ NoFilesystemCall
        /\ fs.files = EmptyFiles
        /\ "finalMessage" \notin DOMAIN record
        /\ ~Ran("console.log: Final Status")
        /\ ~Ran("console.log: Movie Processing Pipeline finished.")
        /\ pc = "done" => Ran("console.error: Critical error during pipeline execution")

C5_Witness ==
    /\ pc = "done"
    /\ Asked("titleRefinement") /\ llmResults.titleRefinement.threw
    /\ Ran("console.error: Critical error during pipeline execution")

(***************************************************************************)
(* C6: when fs.mkdir or fs.writeFile throws in the file writer, the stage  *)
(* still returns a record: nothing is thrown to the sequence, and the      *)
(* record's finalMessage is the "Error writing file" message ending with   *)
(* the message of the error, which the run reports as its final status.    *)
(***************************************************************************)
C6_WriteFailureReported ==
    WriteFailed =>
        /\ Ran("FileWriterAgentStep")
        /\ thrown = Undefined
        /\ pc \in {"returned", "done"}
        /\ StartsWith(Get(record, "finalMessage"), <<"Error writing file \"">>)
        /\ <<record.finalMessage[Len(record.finalMessage)]>> \in
              {<<"EACCES: permission denied, mkdir">>,
               <<"ENOSPC: no space left on device, write">>,
               <<"EISDIR: illegal operation on a directory, open">>}
        /\ pc = "done" => Ran("console.log: Final Status")

C6_Witness ==
    /\ pc = "done"
    /\ WriteFailed
    /\ Ran("fs.writeFile")
    /\ StartsWith(record.finalMessage, <<"Error writing file \"">>)

(***************************************************************************)
(* C7: in every record the pipeline returns, writtenFilePath is non-null   *)
(* only if a file was written at that path during the run; it is null in   *)
(* the not-found branch and when the write failed.                         *)
(***************************************************************************)
C7_WrittenPathOnlyIfWritten ==
    Returns =>
        /\ record.writtenFilePath # Null => record.writtenFilePath \in DOMAIN fs.files
        /\ Ran("HandleMovieNotFoundOrUncertainStep") => record.writtenFilePath = Null
        /\ WriteFailed => record.writtenFilePath = Null

(***************************************************************************)
(* C8: in the metadata Stage 2 produces, Response "False" implies that     *)
(* error is a non-empty string, also when the provider answered Response   *)
(* "False" with Error missing, null or empty.                              *)
(***************************************************************************)
C8_NotFoundHasError ==
    (HasMetadata /\ Metadata.Response = ResponseFalse) =>
        /\ "error" \in DOMAIN Metadata
        /\ Metadata.error \notin {Null, Undefined, <<>>}
        /\ IsString(Metadata.error)

C8_Witness ==
    /\ HasMetadata
    /\ Asked("movieDataAndTheme")
    /\ llmResults.movieDataAndTheme \in
          {Returned(Plain(DocNotFoundNullError)), Returned(Plain(DocNotFoundEmptyError))}
    /\ Metadata.Response = ResponseFalse
    /\ Metadata.error = LlmIndicatedNotFound

(***************************************************************************)
(* C9: in the metadata Stage 2 produces, Response "False" implies that     *)
(* plotSummary is exactly "N/A", also when the provider's answer carries a *)
(* Response other than "True" together with a non-empty Plot.              *)
(***************************************************************************)
C9_NotFoundHasNoPlot ==
    (HasMetadata /\ Metadata.Response = ResponseFalse) => Metadata.plotSummary = NA

(***************************************************************************)
(* C10: in the metadata Stage 2 produces, Response "True" implies that     *)
(* error is null or absent, also when the provider's successful answer     *)
(* carries no Error key.                                                   *)
(***************************************************************************)
C10_FoundHasNoError ==
    (HasMetadata /\ Metadata.Response = ResponseTrue) =>
        Get(Metadata, "error") \in {Null, Undefined}

(***************************************************************************)
(* C11: in the metadata Stage 2 produces, each of title, year, imdbRating, *)
(* mainCast, genre and plotSummary is neither null nor undefined nor the   *)
(* empty string, whatever the provider answered and whatever refined title *)
(* Stage 1 produced, the empty one included.                               *)
(***************************************************************************)
C11_FieldsNeverEmpty ==
    HasMetadata =>
        \A field \in {"title", "year", "imdbRating", "mainCast", "genre", "plotSummary"} :
            Truthy(Get(Metadata, field))

(***************************************************************************)
(* sanitizeFilename called on its own                                      *)
(*                                                                         *)
(* record holds the argument, name, then also what the call returned and   *)
(* what a second call on that result returned.  The argument is undefined, *)
(* null, a number, or a string typed one character at a time, which may    *)
(* be lengthened by a run of MaxFilenameLength letters so that .slice      *)
(* has something to cut.                                                   *)
(***************************************************************************)
MaxNameLength == 4

NameChars == {"a", "B", " ", ".", "!"}

LongRun == [i \in 1..MaxFilenameLength |-> "x"]

SanitizerInit ==
    /\ pc = "name"
    /\ argv = <<>>
    /\ env = AllKeys
    /\ record \in {[name |-> name] : name \in {<<>>, Undefined, Null, NumberValue}}
    /\ thrown = Undefined
    /\ fs = [dirs |-> {}, files |-> EmptyFiles]
    /\ trace = <<>>
    /\ llmResults = NoResults

TypeName ==
    /\ pc = "name"
    /\ IsString(record.name)
    /\ Len(record.name) < MaxNameLength
    /\ \E c \in NameChars : record' = [name |-> Append(record.name, c)]
    /\ UNCHANGED <<pc, argv, env, thrown, fs, trace, llmResults>>

LengthenName ==
    /\ pc = "name"
    /\ IsString(record.name)
    /\ Len(record.name) <= MaxNameLength
    /\ record' \in {[name |-> LongRun \o record.name], [name |-> record.name \o LongRun]}
    /\ UNCHANGED <<pc, argv, env, thrown, fs, trace, llmResults>>

SanitizeFilenameCall ==
    /\ pc = "name"
    /\ pc' = "sanitized"
    /\ \E returned \in {sanitizeFilename(record.name)} :
          record' = [name |-> record.name, returned |-> returned]
    /\ trace' = Append(trace, "sanitizeFilename")
    /\ UNCHANGED <<argv, env, thrown, fs, llmResults>>

SanitizeFilenameAgain ==
    /\ pc = "sanitized"
    /\ pc' = "sanitized again"
    /\ \E again \in {sanitizeFilename(record.returned)} :
          record' = [name |-> record.name, returned |-> record.returned, again |-> again]
    /\ trace' = Append(trace, "sanitizeFilename")
    /\ UNCHANGED <<argv, env, thrown, fs, llmResults>>

SanitizerNext ==
    \/ TypeName
    \/ LengthenName
    \/ SanitizeFilenameCall
    \/ SanitizeFilenameAgain

SanitizerSpec == SanitizerInit /\ [][SanitizerNext]_vars

Sanitized == pc \in {"sanitized", "sanitized again"}

(***************************************************************************)
(* C12: for every argument, string or not, sanitizeFilename returns a      *)
(* string of at most 100 characters, each one of a-z, 0-9, _, . and -,     *)
(* in which no two periods are adjacent.                                   *)
(***************************************************************************)
C12_SanitizedShape ==
    Sanitized =>
        /\ IsString(record.returned)
        /\ Len(record.returned) <= 100
        /\ \A i \in DOMAIN record.returned : record.returned[i] \in FilenameChars
        /\ \A i \in 1..(Len(record.returned) - 1) :
              ~(record.returned[i] = "." /\ record.returned[i + 1] = ".")

C12_Witness ==
    /\ Sanitized
    /\ Len(record.name) > 100
    /\ \E i \in 1..(Len(record.name) - 1) : record.name[i] = "." /\ record.name[i + 1] = "."
    /\ \E i \in DOMAIN record.name : record.name[i] \in {"B", "!", " "}
    /\ Len(record.returned) = 100

(***************************************************************************)
(* C13: for every argument sanitizeFilename returns a non-empty string;    *)
(* an empty or non-string argument, and a string of which no character is  *)
(* kept, give "untitled_movie".                                            *)
(***************************************************************************)
C13_SanitizedNeverEmpty ==
    Sanitized =>
        /\ record.returned # <<>>
        /\ (~IsString(record.name) \/ record.name = <<>>) => record.returned = UntitledMovie
        /\ (IsString(record.name) /\ \A i \in DOMAIN record.name : record.name[i] = "!") =>
              record.returned = UntitledMovie

(***************************************************************************)
(* C14: sanitizeFilename is idempotent: called on its own result it        *)
(* returns that result.                                                    *)
(***************************************************************************)
C14_SanitizeIdempotent ==
    pc = "sanitized again" => record.again = record.returned

(***************************************************************************)
(* extractJsonFromString called on its own                                 *)
(*                                                                         *)
(* record holds the argument, str, then also what the call returned.  The  *)
(* argument is typed part by part: a fence, a lone grave accent, the json  *)
(* tag, white space, a JSON document.                                      *)
(***************************************************************************)
MaxTextParts == 4

TextParts == {Fence, <<Backtick>>, JsonTag, <<" ">>, <<"\n">>, <<DocFound>>}

ExtractorInit ==
    /\ pc = "str"
    /\ argv = <<>>
    /\ env = AllKeys
    /\ record = [str |-> <<>>, parts |-> 0]
    /\ thrown = Undefined
    /\ fs = [dirs |-> {}, files |-> EmptyFiles]
    /\ trace = <<>>
    /\ llmResults = NoResults

TypeText ==
    /\ pc = "str"
    /\ record.parts < MaxTextParts
    /\ \E part \in TextParts : record' = [str |-> record.str \o part, parts |-> record.parts + 1]
    /\ UNCHANGED <<pc, argv, env, thrown, fs, trace, llmResults>>

ExtractJsonFromStringCall ==
    /\ pc = "str"
    /\ pc' = "extracted"
    /\ \E returned \in {extractJsonFromString(record.str)} :
          record' = [str |-> record.str, parts |-> record.parts, returned |-> returned]
    /\ trace' = Append(trace, "extractJsonFromString")
    /\ UNCHANGED <<argv, env, thrown, fs, llmResults>>

ExtractorNext ==
    \/ TypeText
    \/ ExtractJsonFromStringCall

ExtractorSpec == ExtractorInit /\ [][ExtractorNext]_vars

\* a fenced block of s: a fence at open and the next fence after it at close
IsFencedBlock(s, open, close) ==
    /\ open \in Occurrences(s, Fence)
    /\ close \in Occurrences(s, Fence)
    /\ close >= open + 3
    /\ \A other \in Occurrences(s, Fence) : other >= open + 3 => close <= other

HasFencedBlock(s) == \E open, close \in 1..Len(s) : IsFencedBlock(s, open, close)

\* what the first fenced block of s holds between its fences, without the json tag
FirstFencedInterior(s) ==
    LET open == Min({i \in 1..Len(s) : \E close \in 1..Len(s) : IsFencedBlock(s, i, close)})
        close == CHOOSE j \in 1..Len(s) : IsFencedBlock(s, open, j)
        inside == SubSeq(s, open + 3, close - 1)
    IN  IF StartsWith(inside, JsonTag) THEN SubSeq(inside, 5, Len(inside)) ELSE inside

(***************************************************************************)
(* C15: for every string, extractJsonFromString returns the trimmed        *)
(* interior of the first fenced block when the string has a fenced block,  *)
(* an empty or white-space interior included, and the whole string trimmed *)
(* when it has none.                                                       *)
(***************************************************************************)
C15_ExtractsFirstFencedInterior ==
    pc = "extracted" =>
        IF HasFencedBlock(record.str)
        THEN record.returned = Trim(FirstFencedInterior(record.str))
        ELSE record.returned = Trim(record.str)

\* the same, for the strings whose first fenced block holds more than white space
ExtractsNonEmptyInterior ==
    pc = "extracted" =>
        IF HasFencedBlock(record.str)
        THEN Trim(FirstFencedInterior(record.str)) # <<>> =>
                record.returned = Trim(FirstFencedInterior(record.str))
        ELSE record.returned = Trim(record.str)

(***************************************************************************)
(* Reading the Title Refinement stage                                      *)
(***************************************************************************)
\* the provider of Title Refinement answered, with this refined_title_text
TitleAnswered == Asked("titleRefinement") /\ ~llmResults.titleRefinement.threw
TitleText == llmResults.titleRefinement.value

(***************************************************************************)
(* C16: after Title Refinement, titleIsUncertain is true exactly when the  *)
(* trimmed text of the provider ended with " (UNCERTAIN)", and             *)
(* refinedTitle does not end with " (UNCERTAIN)", also when the text       *)
(* holds the marker more than once.                                        *)
(***************************************************************************)
C16_MarkerStripped ==
    TitleAnswered =>
        /\ record.titleIsUncertain <=>
              (IsString(TitleText) /\ EndsWith(Trim(TitleText), UncertainMarker))
        /\ ~EndsWith(record.refinedTitle, UncertainMarker)

(***************************************************************************)
(* C17: when the provider of Title Refinement answers with empty, missing  *)
(* or white-space-only text, refinedTitle is the raw title and             *)
(* titleIsUncertain is false, whatever the raw title.                      *)
(***************************************************************************)
C17_EmptyTextFallsBackToRawTitle ==
    (TitleAnswered /\ (~Truthy(TitleText) \/ Trim(TitleText) = <<>>)) =>
        /\ record.refinedTitle = record.raw_title
        /\ record.titleIsUncertain = FALSE

(***************************************************************************)
(* C18: in the record the not-found handler returns, finalMessage gives    *)
(* the uncertainty of the title as the reason whenever titleIsUncertain is *)
(* true, the metadata's error when titleIsUncertain is false and the       *)
(* metadata has an error, and the generic "Response: False" reason only    *)
(* when the title is certain and the metadata has no error.                *)
(***************************************************************************)
C18_HandlerReasonPrecedence ==
    (Ran("HandleMovieNotFoundOrUncertainStep") /\ thrown = Undefined) =>
        /\ record.titleIsUncertain =>
              /\ Includes(record.finalMessage, ReasonUncertain(record))
              /\ ~Includes(record.finalMessage, <<"\" (Response: False).">>)
        /\ (~record.titleIsUncertain /\ Truthy(Get(Metadata, "error"))) =>
              Includes(record.finalMessage, Metadata.error)
        /\ Includes(record.finalMessage, <<"\" (Response: False).">>) =>
              (~record.titleIsUncertain /\ ~Truthy(Get(Metadata, "error")))

\* the part of it that concerns an uncertain title
UncertaintyIsTheReason ==
    (Ran("HandleMovieNotFoundOrUncertainStep") /\ record.titleIsUncertain) =>
        /\ record.finalMessage =
              <<"Processing halted for \"">> \o titleForMessage(record) \o <<"\": ">>
                  \o ReasonUncertain(record)
        /\ Truthy(Metadata.error)

(***************************************************************************)
(* C19: whenever the metadata has Response "False", an error, or a         *)
(* plotSummary that is "N/A" or missing, the theme is a fixed placeholder  *)
(* and not text the provider supplied; in particular with Response "True"  *)
(* and plotSummary "N/A".  In main.js the theme is derived by Stage 2      *)
(* itself, from the one answer of its provider.                            *)
(***************************************************************************)
PlaceholderThemes == {ThemeProcessingError, ThemeMissing}

C19_NoThemeWithoutPlot ==
    (HasMetadata /\ (\/ Metadata.Response = ResponseFalse
                     \/ ~Truthy(Get(Metadata, "plotSummary"))
                     \/ Metadata.plotSummary = NA)) =>
        record.generatedTheme \in PlaceholderThemes

(***************************************************************************)
(* unnamed/part_000: the pipeline that asks the OMDB API and has a theme   *)
(* stage of its own                                                        *)
(*   titleRefinerRunnable -> omdbFetcherRunnable -> themeGeneratorRunnable *)
(*   -> fileWriterRunnable                                                 *)
(***************************************************************************)
\* a value inside a template literal
Str(v) == IF v = Undefined THEN <<"undefined">> ELSE IF v = Null THEN <<"null">> ELSE v

\* JSON.stringify(obj) as the document it writes: a key whose value is undefined is left
\* out; JSON.parse of that document gives the object back
JsonStringify(obj) == [key \in {k \in DOMAIN obj : obj[k] # Undefined} |-> obj[key]]
JsonParseStringified(document) == Returned(document)

\* name.replace(/[^a-z0-9_\-\s\.]/gi, '').replace(/\s+/g, '_').toLowerCase()
IsFilenameCharOrWs_000(c) == IsFilenameChar(c) \/ IsWs(c)

sanitizeFilename_000(name) ==
    IF ~Truthy(name) \/ ~IsString(name) THEN UntitledMovie
    ELSE With(SelectSeq(name, IsFilenameCharOrWs_000), LAMBDA kept :
         With(ReplaceWsRuns(kept), LAMBDA underscored : ToLowerCase(underscored)))

\* the positions of the commas of s
Commas(s) == SelectSeq([i \in 1..Len(s) |-> i], LAMBDA i : s[i] = ",")

\* s.split(',')
SplitOnCommas(s) ==
    With(Commas(s),
         LAMBDA commas :
            [k \in 1..(Len(commas) + 1) |->
                SubSeq(s, IF k = 1 THEN 1 ELSE commas[k - 1] + 1,
                          IF k = Len(commas) + 1 THEN Len(s) ELSE commas[k] - 1)])

RECURSIVE JoinWith(_, _)
\* parts.join(separator)
JoinWith(parts, separator) ==
    IF parts = <<>> THEN <<>>
    ELSE IF Len(parts) = 1 THEN parts[1]
    ELSE parts[1] \o separator \o JoinWith(Tail(parts), separator)

\* data.Actors.split(',').map(actor => actor.trim()).slice(0,5).join(', ')
FirstFiveActors(actors) ==
    With(SplitOnCommas(actors),
         LAMBDA names : JoinWith([k \in 1..(IF Len(names) < 5 THEN Len(names) ELSE 5) |->
                                     Trim(names[k])],
                                 <<",", " ">>))

UncertainPrefix == <<"U","N","C","E","R","T","A","I","N",":">>

\* the object every failure path of the tool writes
OmdbErrorData(message, title) ==
    [error |-> message, title |-> title, plotSummary |-> NA, genre |-> NA, year |-> NA,
     imdbRating |-> NA, mainCast |-> NA]

\* the try block of OMDBMovieInfoTool._call: http is the outcome of axios.get, its value
\* is response.data
OmdbTry_000(refinedMovieTitle, http) ==
    IF http.threw THEN http
    ELSE IF JsonProperty(http.value, "Response").threw THEN JsonProperty(http.value, "Response")
    ELSE With(JsonSpread(http.value),
              LAMBDA data :
                 IF Get(data, "Response") = ResponseFalse
                 THEN Returned(JsonStringify(OmdbErrorData(
                          <<"OMDB API Error for title \"">> \o refinedMovieTitle \o <<"\": ">>
                              \o Str(Get(data, "Error")),
                          refinedMovieTitle)))
                 ELSE IF Truthy(Get(data, "Actors")) /\ ~IsString(Get(data, "Actors"))
                 THEN Threw(<<"data.Actors.split is not a function">>)
                 ELSE Returned(JsonStringify(
                          [title |-> Or(Get(data, "Title"), refinedMovieTitle),
                           year |-> Or(Get(data, "Year"), NA),
                           imdbRating |-> Or(Get(data, "imdbRating"), NA),
                           mainCast |-> Or(IF Truthy(Get(data, "Actors"))
                                           THEN FirstFiveActors(data.Actors) ELSE NA, NA),
                           genre |-> Or(Get(data, "Genre"), NA),
                           plotSummary |-> Or(Get(data, "Plot"), NA)])))

\* OMDBMovieInfoTool._call(refinedMovieTitle)
OMDBMovieInfoTool_call(refinedMovieTitle, http) ==
    IF ~Truthy(refinedMovieTitle) \/ StartsWith(refinedMovieTitle, UncertainPrefix)
    THEN Returned(JsonStringify(OmdbErrorData(
             <<"OMDBTool: Cannot reliably search OMDB with title: ">> \o refinedMovieTitle,
             ReplaceFirst(refinedMovieTitle, UncertainPrefix \o <<" ">>, <<>>))))
    ELSE With(OmdbTry_000(refinedMovieTitle, http),
              LAMBDA attempt :
                 IF attempt.threw
                 THEN Returned(JsonStringify(OmdbErrorData(
                          <<"OMDBTool internal error for title \"">> \o refinedMovieTitle
                              \o <<"\": ">> \o attempt.message,
                          refinedMovieTitle)))
                 ELSE attempt)

\* whether the tool reaches axios.get
CallsOmdb_000(refinedMovieTitle) ==
    ~(~Truthy(refinedMovieTitle) \/ StartsWith(refinedMovieTitle, UncertainPrefix))

\* Step 1: no fallback and no try/catch
titleRefinerRunnable_000(inputObject, llm) ==
    IF llm.threw THEN llm
    ELSE IF ~IsString(llm.value)
    THEN Threw(<<"Cannot read properties of undefined (reading 'trim')">>)
    ELSE Returned(Spread(inputObject, [refinedTitle |-> Trim(llm.value)]))

\* Step 2: the tool's document parsed back
omdbFetcherRunnable_000(inputObject, http) ==
    With(OMDBMovieInfoTool_call(inputObject.refinedTitle, http),
         LAMBDA omdbDataString :
            Returned(Spread(inputObject,
                [movieDataFromOMDB |-> JsonParseStringified(omdbDataString.value).value])))

ThemePriorIssues_000 == <<"Theme ", CouldNotBeDetermined, " due to prior issues.">>

\* if (movieDataFromOMDB.error || !movieDataFromOMDB.plotSummary || plotSummary === "N/A")
SkipsTheme_000(inputObject) ==
    \/ Truthy(Get(inputObject.movieDataFromOMDB, "error"))
    \/ ~Truthy(Get(inputObject.movieDataFromOMDB, "plotSummary"))
    \/ inputObject.movieDataFromOMDB.plotSummary = NA

\* Step 3: the invoke has no try/catch around it
themeGeneratorRunnable_000(inputObject, llm) ==
    IF SkipsTheme_000(inputObject)
    THEN Returned(Spread(inputObject, [generatedTheme |-> ThemePriorIssues_000]))
    ELSE IF llm.threw THEN llm
    ELSE IF ~IsString(llm.value)
    THEN Threw(<<"Cannot read properties of undefined (reading 'trim')">>)
    ELSE Returned(Spread(inputObject, [generatedTheme |-> Trim(llm.value)]))

finalMovieDataForFile_000(inputObject) ==
    [title |-> Or(Get(inputObject.movieDataFromOMDB, "title"), inputObject.refinedTitle),
     year |-> Or(Get(inputObject.movieDataFromOMDB, "year"), NA),
     imdbRating |-> Or(Get(inputObject.movieDataFromOMDB, "imdbRating"), NA),
     mainCast |-> Or(Get(inputObject.movieDataFromOMDB, "mainCast"), NA),
     genre |-> Or(Get(inputObject.movieDataFromOMDB, "genre"), NA),
     plotSummary |-> Or(Get(inputObject.movieDataFromOMDB, "plotSummary"), NA),
     movieTheme |-> Or(Get(inputObject, "generatedTheme"), <<"Theme ", CouldNotBeDetermined, ".">>),
     omdbError |-> Or(Get(inputObject.movieDataFromOMDB, "error"), Null)]

fileContent_000(dataObj) ==
    <<"Movie Title: ">> \o dataObj.title \o <<" (">> \o Or(Get(dataObj, "year"), NA) \o <<")\n">>
    \o <<"--------------------------------------\n">>
    \o <<"IMDb Rating:\n  ">> \o Or(Get(dataObj, "imdbRating"), NA) \o <<"\n\n">>
    \o <<"Main Cast:\n  ">> \o Or(Get(dataObj, "mainCast"), NA) \o <<"\n\n">>
    \o <<"Genre(s):\n  ">> \o Or(Get(dataObj, "genre"), NA) \o <<"\n\n">>
    \o <<"Movie Theme:\n  ">> \o Or(Get(dataObj, "movieTheme"), <<"Theme ", CouldNotBeDetermined, ".">>)
    \o <<"\n\n">>
    \o <<"Plot Summary:\n  ">> \o Or(Get(dataObj, "plotSummary"), NA) \o <<"\n">>

\* FileWriterTool._call(movieDataJsonString): the status it returns, the filesystem
\* afterwards and the calls made
FileWriterTool_call(movieDataJsonString, disk, fault) ==
    With(JsonParseStringified(movieDataJsonString).value,
         LAMBDA dataObj :
            IF ~Truthy(Get(dataObj, "title"))
            THEN [message |-> <<"MovieInfoFileWriter: Missing 'title' in data: ",
                                "JSON.stringify(dataObj)">>,
                  fs |-> disk, calls |-> <<>>]
            ELSE IF Truthy(Get(dataObj, "error")) /\ ~Truthy(Get(dataObj, "plotSummary"))
            THEN [message |-> <<"FileWriterTool: Skipped writing for \"">> \o dataObj.title
                                  \o <<"\" due to previous errors: ">> \o dataObj.error,
                  fs |-> disk, calls |-> <<>>]
            ELSE With(PathJoin(OUTPUT_DIR, sanitizeFilename_000(dataObj.title) \o DotTxt),
                      LAMBDA filePath :
                 With(nativeFileSystemWriteTool(filePath, fileContent_000(dataObj),
                                                OUTPUT_DIR, disk, fault),
                      LAMBDA written :
                         [message |->
                              IF written.threw
                              THEN <<"MovieInfoFileWriter: Error writing file for \"">>
                                       \o dataObj.title \o <<"\": ">> \o written.message
                              ELSE <<"Successfully wrote movie details for \"">>
                                       \o dataObj.title \o <<"\" to: ">> \o filePath,
                          fs |-> written.fs, calls |-> written.calls])))

\* Step 4
fileWriterRunnable_000(inputObject, disk, fault) ==
    With(finalMovieDataForFile_000(inputObject), LAMBDA data :
    With(FileWriterTool_call(JsonStringify(data), disk, fault), LAMBDA fileWriteResult :
         [result |-> Returned([finalMessage |-> fileWriteResult.message, writtenData |-> data]),
          fs |-> fileWriteResult.fs,
          calls |-> fileWriteResult.calls]))

DefaultTitle_000 == <<"i","n","c","e","p","t","i","o">>

Argvs_000 == { <<>>, << <<"u","p">> >> }

TitleTexts_000 ==
    { Undefined,
      <<>>,
      <<" ">> \o TitleUp \o <<"\n">>,
      UncertainPrefix \o <<" ">> \o TitleUp }

TitleLlmResults_000 == {Threw(ProviderError)} \cup {Returned(text) : text \in TitleTexts_000}

\* response.data of the OMDB API
OmdbData ==
    { JsonObject([Title |-> TitleUp, Year |-> <<"2","0","0","9">>, imdbRating |-> <<"8",".","3">>,
                  Actors |-> ActorsOfUp, Genre |-> <<"Animation">>, Plot |-> PlotUp,
                  Response |-> ResponseTrue]),
      JsonObject([Title |-> TitleUp, Plot |-> NA, Response |-> ResponseTrue]),
      JsonObject([Title |-> TitleUp, Response |-> ResponseTrue]),
      JsonObject([Response |-> ResponseFalse, Error |-> MovieNotFound]),
      JsonObject([Response |-> ResponseFalse]),
      JsonObject([Title |-> TitleUp, Actors |-> NumberValue, Plot |-> PlotUp,
                  Response |-> ResponseTrue]),
      JsonNull }

OmdbResults == {Threw(<<"Request failed with status code 401">>)}
                   \cup {Returned(data) : data \in OmdbData}

ThemeTexts == { Undefined, <<>>, <<" ">> \o ThemeUp \o <<"\n">> }

ThemeLlmResults == {Threw(ProviderError)} \cup {Returned(text) : text \in ThemeTexts}

Init_000 ==
    /\ pc = "startup"
    /\ argv \in Argvs_000
    /\ env \in Envs
    /\ record = [key \in {} |-> <<>>]
    /\ thrown = Undefined
    /\ fs \in {[dirs |-> dirs, files |-> EmptyFiles] : dirs \in {{}, {OUTPUT_DIR}}}
    /\ trace = <<>>
    /\ llmResults = NoResults

\* the module body before the entry point: both keys are required
Startup_000 ==
    /\ pc = "startup"
    /\ IF ~Truthy(env.OMDB_API_KEY)
       THEN /\ pc' = "exited"
            /\ trace' = trace \o <<"console.error: OMDB_API_KEY is not set", "process.exit(1)">>
       ELSE IF ~Truthy(env.GOOGLE_API_KEY)
       THEN /\ pc' = "exited"
            /\ trace' = trace \o <<"console.error: GOOGLE_API_KEY is not set", "process.exit(1)">>
       ELSE /\ pc' = "main"
            /\ trace' = trace
    /\ UNCHANGED <<argv, env, record, thrown, fs, llmResults>>

\* the entry point and processMovieWithLCELSequence up to fullSequence.invoke
Main_000 ==
    /\ pc = "main"
    /\ LET movieNameInput == Or(Join(argv), DefaultTitle_000)
       IN  IF ~Truthy(movieNameInput)
           THEN /\ pc' = "done"
                /\ trace' = Append(trace, "console.error: Please provide a movie name.")
                /\ UNCHANGED record
           ELSE /\ pc' = "TitleRefinementStep"
                /\ trace' = Append(trace, "console.log: Starting LCEL Sequential processing")
                /\ record' = [raw_title |-> movieNameInput]
    /\ UNCHANGED <<argv, env, thrown, fs, llmResults>>

TitleRefinementStep_000 ==
    /\ pc = "TitleRefinementStep"
    /\ \E llm \in TitleLlmResults_000 :
          /\ \E outcome \in {titleRefinerRunnable_000(record, llm)} :
                StepResult(outcome, "OMDBFetcherStep")
          /\ trace' = trace \o <<"TitleRefinementStep", "llm:titleRefinement">>
                          \o (IF llm.threw THEN <<"threw">> ELSE <<>>)
          /\ llmResults' = ("titleRefinement" :> llm) @@ llmResults
    /\ UNCHANGED <<argv, env, fs>>

OMDBFetcherStep_000 ==
    /\ pc = "OMDBFetcherStep"
    /\ IF CallsOmdb_000(record.refinedTitle)
       THEN \E http \in OmdbResults :
               /\ \E outcome \in {omdbFetcherRunnable_000(record, http)} :
                     StepResult(outcome, "ThemeGenerationStep")
               /\ trace' = trace \o <<"OMDBFetcherStep", "axios.get">>
                               \o (IF http.threw THEN <<"threw">> ELSE <<>>)
               /\ llmResults' = ("omdb" :> http) @@ llmResults
       ELSE /\ \E outcome \in {omdbFetcherRunnable_000(record, Undefined)} :
                  StepResult(outcome, "ThemeGenerationStep")
            /\ trace' = Append(trace, "OMDBFetcherStep")
            /\ UNCHANGED llmResults
    /\ UNCHANGED <<argv, env, fs>>

ThemeGenerationStep_000 ==
    /\ pc = "ThemeGenerationStep"
    /\ IF SkipsTheme_000(record)
       THEN /\ \E outcome \in {themeGeneratorRunnable_000(record, Undefined)} :
                  StepResult(outcome, "FileWriterStep")
            /\ trace' = Append(trace, "ThemeGenerationStep")
            /\ UNCHANGED llmResults
       ELSE \E llm \in ThemeLlmResults :
               /\ \E outcome \in {themeGeneratorRunnable_000(record, llm)} :
                     StepResult(outcome, "FileWriterStep")
               /\ trace' = trace \o <<"ThemeGenerationStep", "llm:themeGeneration">>
                               \o (IF llm.threw THEN <<"threw">> ELSE <<>>)
               /\ llmResults' = ("themeGeneration" :> llm) @@ llmResults
    /\ UNCHANGED <<argv, env, fs>>

FileWriterStep_000 ==
    /\ pc = "FileWriterStep"
    /\ \E fault \in FsFaults :
          \E out \in {fileWriterRunnable_000(record, fs, fault)} :
             /\ StepResult(out.result, "returned")
             /\ fs' = out.fs
             /\ trace' = trace \o <<"FileWriterStep">> \o out.calls
    /\ UNCHANGED <<argv, env, llmResults>>

\* processMovieWithLCELSequence after the sequence returned
ReportCompleted_000 ==
    /\ pc = "returned"
    /\ pc' = "done"
    /\ trace' = trace \o <<"console.log: LCEL Sequence completed.",
                           "console.log: Final Output from Sequence">>
    /\ UNCHANGED <<argv, env, record, thrown, fs, llmResults>>

\* processMovieWithLCELSequence's catch (error)
ReportCriticalError_000 ==
    /\ pc = "catch"
    /\ pc' = "done"
    /\ trace' = Append(trace, "console.error: Critical error during LCEL sequence execution")
    /\ UNCHANGED <<argv, env, record, thrown, fs, llmResults>>

Next_000 ==
    \/ Startup_000
    \/ Main_000
    \/ TitleRefinementStep_000
    \/ OMDBFetcherStep_000
    \/ ThemeGenerationStep_000
    \/ FileWriterStep_000
    \/ ReportCompleted_000
    \/ ReportCriticalError_000

Spec_000 == Init_000 /\ [][Next_000]_vars

(***************************************************************************)
(* C20: in a pipeline with a theme stage of its own, a provider call of    *)
(* that stage that throws is caught inside the stage: nothing is thrown to *)
(* the sequence, the theme is a fixed failure placeholder, and the run     *)
(* goes on to the file writer.  Stated for the pipeline of part_000.       *)
(***************************************************************************)
ThemeFailurePlaceholders ==
    {<<"Theme generation failed due to an error.">>, ThemePriorIssues_000,
     <<"Theme ", CouldNotBeDetermined, ".">>}

C20_ThemeFailureNotFatal ==
    (Asked("themeGeneration") /\ llmResults.themeGeneration.threw) =>
        /\ thrown = Undefined
        /\ pc \in {"FileWriterStep", "returned", "done"}
        /\ pc = "FileWriterStep" => record.generatedTheme \in ThemeFailurePlaceholders
        /\ pc \in {"returned", "done"} =>
              /\ Ran("FileWriterStep")
              /\ record.writtenData.movieTheme \in ThemeFailurePlaceholders

(***************************************************************************)
(* C21: for a found movie the mainCast handed on by the metadata stage of  *)
(* main.js lists at most five names, however many the provider's Actors    *)
(* field lists.                                                            *)
(***************************************************************************)
\* the number of comma-separated names of a cast string
NamesIn(mainCast) == Len(SplitOnCommas(mainCast))

C21_MainCastAtMostFive ==
    (HasMetadata /\ Metadata.Response = ResponseTrue /\ IsString(Metadata.mainCast)) =>
        NamesIn(Metadata.mainCast) <= 5

\* the same for the tool of part_000, which slices the list
MainCastAtMostFive_000 ==
    ("movieDataFromOMDB" \in DOMAIN record
     /\ ~Truthy(Get(record.movieDataFromOMDB, "error"))) =>
        NamesIn(record.movieDataFromOMDB.mainCast) <= 5

(***************************************************************************)
(* C22: every file the write branch of main.js writes has a name that ends *)
(* with ".txt", whether the name came from the model or from the fallback. *)
(***************************************************************************)
C22_WrittenNameEndsWithTxt ==
    \A filePath \in DOMAIN fs.files : EndsWith(filePath, DotTxt)

\* the part of it that concerns the fallback name
FallbackNameEndsWithTxt ==
    (Returns /\ Ran("FileWriterAgentStep")
     /\ ~LlmFileDetails(llmResults.fileContent).wasLlmSuccessful) =>
        EndsWith(record.writtenFilePath, DotTxt)

(***************************************************************************)
(* C23: once the title refinement stage of main.js has returned, the run   *)
(* never throws: whatever the Stage 2 provider, the file-content model and *)
(* the filesystem do, no error reaches the catch of processMoviePipeline,  *)
(* the final record has a finalMessage and the final status is printed.    *)
(***************************************************************************)
TitleStageReturned == "refinedTitle" \in DOMAIN record

C23_NoThrowAfterTitleStage ==
    TitleStageReturned =>
        /\ thrown = Undefined
        /\ pc # "catch"
        /\ pc = "done" => /\ Truthy(Get(record, "finalMessage"))
                          /\ Ran("console.log: Final Status")

\* the same for the Stage 2 answers whose MovieTheme is a string or missing
NoThrowWithStringTheme ==
    (TitleStageReturned /\ "generatedTheme" \in DOMAIN record
     /\ IsString(record.generatedTheme)) =>
        /\ thrown = Undefined
        /\ pc = "done" => /\ Truthy(Get(record, "finalMessage"))
                          /\ Ran("console.log: Final Status")

(***************************************************************************)
(* C24: when GOOGLE_API_KEY or OMDB_API_KEY is missing at startup, the     *)
(* process exits at once with a non-zero status and no pipeline stage      *)
(* runs.  Stated for main.js.                                              *)
(***************************************************************************)
CredentialMissing == ~Truthy(env.GOOGLE_API_KEY) \/ ~Truthy(env.OMDB_API_KEY)

Stages ==
    {"TitleRefinementAgentStep", "MovieDataAndThemeAgentStep", "IsMovieNotFoundCondition",
     "HandleMovieNotFoundOrUncertainStep", "FileWriterAgentStep",
     "TitleRefinementStep", "OMDBFetcherStep", "ThemeGenerationStep", "FileWriterStep"}

NoStageRan == \A i \in DOMAIN trace : trace[i] \notin Stages

C24_MissingCredentialExits ==
    CredentialMissing =>
        /\ pc \in {"startup", "exited"}
        /\ NoStageRan
        /\ pc = "exited" => Ran("process.exit(1)")

\* the same for the pipeline of part_000, which requires both keys
MissingCredentialExits_000 ==
    CredentialMissing =>
        /\ pc = "startup" \/ (pc = "exited" /\ Ran("process.exit(1)"))
        /\ ~Ran("TitleRefinementStep")
        /\ llmResults = NoResults

(***************************************************************************)
(* C25: in the main.js pipeline the record only accumulates: every step    *)
(* leaves raw_title and every field an earlier stage set as they were, and *)
(* adds only the fields of the stage that ran; raw_title is the title the  *)
(* run was entered with.                                                   *)
(***************************************************************************)
\* the fields each stage adds to the record
OwnFields(stage) ==
    CASE stage = "main" -> {"raw_title"}
      [] stage = "TitleRefinementAgentStep" -> {"refinedTitle", "titleIsUncertain"}
      [] stage = "MovieDataAndThemeAgentStep" -> {"movieDataFromOMDB", "generatedTheme"}
      [] stage \in {"HandleMovieNotFoundOrUncertainStep", "FileWriterAgentStep"} ->
            {"finalMessage", "writtenFilePath"}
      [] OTHER -> {}

EnteredTitle == Or(Trim(Join(argv)), DefaultTitle)

C25_RecordOnlyAccumulates ==
    [][/\ \A field \in DOMAIN record :
             field \in DOMAIN record' /\ record'[field] = record[field]
       /\ (DOMAIN record' \ DOMAIN record) \subseteq OwnFields(pc)
       /\ "raw_title" \in DOMAIN record' => record'.raw_title = EnteredTitle]_vars

C25_Witness ==
    /\ pc = "done"
    /\ Ran("HandleMovieNotFoundOrUncertainStep")
    /\ DOMAIN record = {"raw_title", "refinedTitle", "titleIsUncertain", "movieDataFromOMDB",
                        "generatedTheme", "finalMessage", "writtenFilePath"}
    /\ record.raw_title = EnteredTitle
    /\ record.refinedTitle # record.raw_title

(***************************************************************************)
(* The write branch of main.js run twice, one run after the other, on one  *)
(* output directory: record holds the record handed to the file writer and *)
(* what each run has returned                                              *)
(***************************************************************************)
\* records of a found movie titled "Up", as Stage 2 hands them to the file writer
WriteBranchInputs ==
    {movieDataAndThemeAgentRunnable(
         RefineTitle([raw_title |-> <<"u","p">>], <<" ">> \o TitleUp \o <<"\n">>).value,
         Returned(Plain(doc))).value : doc \in {DocFound, DocFoundNoPlot}}

RerunInit ==
    /\ pc = "FileWriterAgentStep"
    /\ argv = << <<"u","p">> >>
    /\ env = AllKeys
    /\ record \in {[input |-> input, runs |-> <<>>] : input \in WriteBranchInputs}
    /\ thrown = Undefined
    /\ fs \in {[dirs |-> dirs, files |-> EmptyFiles] : dirs \in {{}, {OUTPUT_DIR}}}
    /\ trace = <<>>
    /\ llmResults = NoResults

\* one run of the file writer stage on the directory as the run before left it
WriteBranchRun ==
    /\ pc = "FileWriterAgentStep"
    /\ \E llm \in FileLlmResults, fault \in FsFaults :
          \E out \in {fileWriterAgentRunnable(record.input, llm, OUTPUT_DIR, fs, fault)} :
             /\ record' = [record EXCEPT !.runs = Append(@,
                              [outcome |-> out.result,
                               file |-> FileDetails(record.input, llm),
                               wrote |-> out.calls[Len(out.calls)] = "fs.writeFile"])]
             /\ fs' = out.fs
             /\ trace' = trace \o <<"FileWriterAgentStep">> \o out.calls
             /\ llmResults' = ("fileContent" :> llm) @@ llmResults
    /\ pc' = "returned"
    /\ UNCHANGED <<argv, env, thrown>>

\* the program is started again for the same title
RunAgain ==
    /\ pc = "returned"
    /\ Len(record.runs) < 2
    /\ pc' = "FileWriterAgentStep"
    /\ \E input \in WriteBranchInputs : record' = [record EXCEPT !.input = input]
    /\ UNCHANGED <<argv, env, thrown, fs, trace, llmResults>>

RerunNext ==
    \/ WriteBranchRun
    \/ RunAgain

RerunSpec == RerunInit /\ [][RerunNext]_vars

(***************************************************************************)
(* C26: after two successive successful runs of the write branch for the   *)
(* same title, both runs wrote the same path, the output directory holds   *)
(* one file, and its content is what the second run wrote.                 *)
(***************************************************************************)
TwoSuccessfulRuns ==
    /\ pc = "returned"
    /\ Len(record.runs) = 2
    /\ record.runs[1].wrote /\ record.runs[2].wrote

C26_SecondRunOverwrites ==
    TwoSuccessfulRuns =>
        /\ record.runs[1].outcome.value.writtenFilePath
              = record.runs[2].outcome.value.writtenFilePath
        /\ Cardinality(DOMAIN fs.files) = 1
        /\ fs.files[record.runs[2].outcome.value.writtenFilePath]
              = record.runs[2].file.finalFileContent

\* the same when neither run took the file's name from the model
FallbackNameOverwrites ==
    (TwoSuccessfulRuns /\ ~record.runs[1].file.wasLlmSuccessful
                       /\ ~record.runs[2].file.wasLlmSuccessful) =>
        /\ record.runs[1].outcome.value.writtenFilePath
              = record.runs[2].outcome.value.writtenFilePath
        /\ DOMAIN fs.files = {record.runs[2].outcome.value.writtenFilePath}
        /\ fs.files[record.runs[2].outcome.value.writtenFilePath]
              = record.runs[2].file.finalFileContent

(***************************************************************************)
(* Two runs of the file writer of main.js at the same time on one output   *)
(* directory.  nativeFileSystemWriteTool awaits fs.mkdir and then          *)
(* fs.writeFile; fs.writeFile opens the file with the flag 'w' (created or *)
(* truncated), writes the data from offset 0 and closes it, and the runs   *)
(* take no lock, so the steps of the two runs interleave freely.  pc,      *)
(* record hold one value for each run.                                     *)
(***************************************************************************)
Runs == {1, 2}

\* the answers of the file-content model the two runs may get
ConcurrentLlmResults ==
    {Threw(ProviderError), Returned(Plain(DocFile)), Returned(Plain(DocFileNoExtension))}

ConcurrentInput ==
    movieDataAndThemeAgentRunnable(
        RefineTitle([raw_title |-> <<"u","p">>], <<" ">> \o TitleUp \o <<"\n">>).value,
        Returned(Plain(DocFound))).value

ConcurrentInit ==
    /\ pc = [run \in Runs |-> "FileWriterAgentStep"]
    /\ argv = << <<"u","p">> >>
    /\ env = AllKeys
    /\ record = [run \in Runs |-> ConcurrentInput]
    /\ thrown = Undefined
    /\ fs \in {[dirs |-> dirs, files |-> EmptyFiles] : dirs \in {{}, {OUTPUT_DIR}}}
    /\ trace = <<>>
    /\ llmResults = [run \in Runs |-> Undefined]

\* the stage up to the call of nativeFileSystemWriteTool
PrepareFile(run) ==
    /\ pc[run] = "FileWriterAgentStep"
    /\ \E llm \in ConcurrentLlmResults :
          \E file \in {FileDetails(record[run], llm)} :
             /\ record' = [record EXCEPT ![run] =
                              [input |-> @,
                               filePath |-> PathJoin(OUTPUT_DIR, file.finalFilename),
                               finalFileContent |-> file.finalFileContent,
                               wasLlmSuccessful |-> file.wasLlmSuccessful]]
             /\ llmResults' = [llmResults EXCEPT ![run] = llm]
    /\ pc' = [pc EXCEPT ![run] = "fs.mkdir"]
    /\ trace' = Append(trace, [run |-> run, call |-> "llm:fileContent"])
    /\ UNCHANGED <<argv, env, thrown, fs>>

\* await fs.mkdir(outputDir, { recursive: true }): no error when the directory exists
Mkdir(run) ==
    /\ pc[run] = "fs.mkdir"
    /\ fs' = [fs EXCEPT !.dirs = @ \cup {OUTPUT_DIR}]
    /\ pc' = [pc EXCEPT ![run] = "fs.writeFile"]
    /\ trace' = Append(trace, [run |-> run, call |-> "fs.mkdir"])
    /\ UNCHANGED <<argv, env, record, thrown, llmResults>>

\* fs.writeFile is called: the file is opened, created or truncated
OpenFile(run) ==
    /\ pc[run] = "fs.writeFile"
    /\ fs' = [fs EXCEPT !.files = (record[run].filePath :> <<>>) @@ @]
    /\ pc' = [pc EXCEPT ![run] = "write"]
    /\ trace' = Append(trace, [run |-> run, call |-> "fs.writeFile"])
    /\ UNCHANGED <<argv, env, record, thrown, llmResults>>

\* data written at offset 0 over what the file holds
Overlay(old, data) == data \o SubSeq(old, Len(data) + 1, Len(old))

WriteData(run) ==
    /\ pc[run] = "write"
    /\ fs' = [fs EXCEPT !.files[record[run].filePath] =
                            Overlay(@, record[run].finalFileContent)]
    /\ pc' = [pc EXCEPT ![run] = "close"]
    /\ trace' = Append(trace, [run |-> run, call |-> "write"])
    /\ UNCHANGED <<argv, env, record, thrown, llmResults>>

\* the file is closed, fs.writeFile resolves and the stage returns its record
CloseFile(run) ==
    /\ pc[run] = "close"
    /\ record' = [record EXCEPT ![run] =
                     Spread(@.input,
                         [finalMessage |-> WriteSuccessMessage(detailsForFileLlm(@.input),
                                               @.filePath, @.wasLlmSuccessful),
                          writtenFilePath |-> @.filePath,
                          finalFileContent |-> @.finalFileContent])]
    /\ pc' = [pc EXCEPT ![run] = "returned"]
    /\ trace' = Append(trace, [run |-> run, call |-> "close"])
    /\ UNCHANGED <<argv, env, thrown, fs, llmResults>>

ConcurrentNext ==
    \E run \in Runs :
        \/ PrepareFile(run)
        \/ Mkdir(run)
        \/ OpenFile(run)
        \/ WriteData(run)
        \/ CloseFile(run)

ConcurrentSpec == ConcurrentInit /\ [][ConcurrentNext]_vars

(***************************************************************************)
(* C27: when two concurrent runs write the same path, after both have      *)
(* finished the file holds the content of the run whose fs.writeFile was   *)
(* called last, and both runs report success.                              *)
(***************************************************************************)
BothFinishedOnOnePath ==
    /\ \A run \in Runs : pc[run] = "returned"
    /\ record[1].writtenFilePath = record[2].writtenFilePath

\* the run whose fs.writeFile was called last
LastIssued ==
    trace[Max({i \in DOMAIN trace : trace[i].call = "fs.writeFile"})].run

C27_LastWriterWins ==
    BothFinishedOnOnePath =>
        /\ fs.files[record[1].writtenFilePath] = record[LastIssued].finalFileContent
        /\ \A run \in Runs :
              record[run].finalMessage[1] = "Successfully wrote movie details for \""

\* the part of it that holds: no run fails because of the other, and the file holds
\* data of the runs only
NeitherRunFails ==
    (\A run \in Runs : pc[run] = "returned") =>
        \A run \in Runs :
            /\ record[run].finalMessage[1] = "Successfully wrote movie details for \""
            /\ record[run].writtenFilePath \in DOMAIN fs.files

(***************************************************************************)
(* C28: every path the file writer of main.js hands to the filesystem      *)
(* write lies directly inside the output directory: it is the directory, a *)
(* separator and a name that is not empty, holds no separator and is not   *)
(* "." or "..".                                                            *)
(***************************************************************************)
DirectlyInside(filePath, outputDir) ==
    /\ Len(filePath) > Len(outputDir) + 1
    /\ SubSeq(filePath, 1, Len(outputDir)) = outputDir
    /\ filePath[Len(outputDir) + 1] = "/"
    /\ \A i \in (Len(outputDir) + 2)..Len(filePath) : filePath[i] \notin {"/", "\\"}
    /\ SubSeq(filePath, Len(outputDir) + 2, Len(filePath)) \notin {<<".">>, <<".", ".">>}

C28_PathInsideOutputDir ==
    (Ran("FileWriterAgentStep") /\ "writtenFilePath" \in DOMAIN record) =>
        DirectlyInside(record.writtenFilePath, OUTPUT_DIR)

\* the part of it that holds: no file comes to exist anywhere else
NoFileOutsideOutputDir ==
    \A filePath \in DOMAIN fs.files : DirectlyInside(filePath, OUTPUT_DIR)

(***************************************************************************)
(* C29: every execution of the file writer stage of main.js calls the      *)
(* filesystem write once.  The model's filename (sanitized) and content    *)
(* are written exactly when the model call returned, its extracted output  *)
(* parsed as JSON and filename and file_content are non-empty strings; in  *)
(* every other case the fallback name sanitizeFilename(title) + ".txt" and *)
(* the fallback content are written.                                       *)
(***************************************************************************)
\* what the file-content model answered, parsed
FileAnswer == JsonParse(extractJsonFromString(llmResults.fileContent.value))

NonEmptyString(v) == IsString(v) /\ v # <<>>

ModelAnswerUsable ==
    /\ ~llmResults.fileContent.threw
    /\ ~FileAnswer.threw
    /\ FileAnswer.value.type = "object"
    /\ NonEmptyString(Get(FileAnswer.value.fields, "filename"))
    /\ NonEmptyString(Get(FileAnswer.value.fields, "file_content"))

WriteToolCalls == Times("fs.mkdir")

WrittenAs(filePath, rightContent(_)) ==
    /\ "writtenFilePath" \in DOMAIN record
    /\ record.writtenFilePath = filePath
    /\ filePath \in DOMAIN fs.files => rightContent(fs.files[filePath])

WritesModelOrFallback ==
    IF ModelAnswerUsable
    THEN WrittenAs(PathJoin(OUTPUT_DIR, sanitizeFilename(FileAnswer.value.fields.filename)),
                   LAMBDA content : content = FileAnswer.value.fields.file_content)
    ELSE WrittenAs(PathJoin(OUTPUT_DIR,
                            sanitizeFilename(detailsForFileLlm(record).title) \o DotTxt),
                   LAMBDA content :
                      /\ StartsWith(content, <<"Movie Title: ">>)
                      /\ Includes(content, <<"--- Fallback Content Note ---\n">>))

C29_OneWriteModelOrFallback ==
    Ran("FileWriterAgentStep") => (WriteToolCalls = 1 /\ WritesModelOrFallback)

\* the same for the records whose theme is a string
OneWriteWithStringTheme ==
    (Ran("FileWriterAgentStep") /\ IsString(record.generatedTheme)) =>
        (WriteToolCalls = 1 /\ WritesModelOrFallback)

(***************************************************************************)
(* C30: in the pipeline of part_000, when the metadata lookup ended in an  *)
(* error (not found, transport failure, uncertain title) the file writer   *)
(* tool skips the write and no file is created; a file is written only for *)
(* metadata without an error.                                              *)
(***************************************************************************)
LookupFailed_000 ==
    /\ "movieDataFromOMDB" \in DOMAIN record
    /\ Truthy(Get(record.movieDataFromOMDB, "error"))

C30_NoFileAfterLookupError ==
    /\ LookupFailed_000 => (NoFilesystemCall /\ fs.files = EmptyFiles)
    /\ (pc \in {"returned", "done"} /\ "writtenData" \in DOMAIN record
        /\ record.writtenData.omdbError # Null) => fs.files = EmptyFiles
=============================================================================
